---- MODULE Spec2Model ----
(***************************************************************************)
(* A model of the policy/decision subsystem of the BrothRL TypeScript SDK: *)
(* the storage-backed ContextualBandit with its MemoryStorage, the         *)
(* Guardrails rule engine and the Environment step loop.                   *)
(*                                                                         *)
(* Numbers.  Rewards are JavaScript numbers; the model draws them from a   *)
(* small set of integers and keeps averageReward as an exact fraction      *)
(* <<numerator, denominator>> in lowest terms, so that the division of     *)
(* update() is computed and not assumed.  Floating-point rounding is not   *)
(* modelled.                                                               *)
(*                                                                         *)
(* Strings.  A string is a sequence of tokens; template literals are       *)
(* concatenations of such sequences.                                       *)
(*                                                                         *)
(* Objects.  MemoryStorage keeps and returns object references, so an     *)
(* ArmStats object lives in `heap` and the store holds a reference to it.  *)
(***************************************************************************)
EXTENDS Integers, Sequences, FiniteSets, TLC

\* ------------------------------------------------------------------ bounds

\* Number of ContextualBandit.update calls issued in one behaviour.
MaxCalls == 3

\* A rule's actionCounts entries stay below this before a call that checks rules.
MaxChecks == 2

\* validate is called while fewer violations than this are recorded.
MaxViolations == 1

\* Steps of one episode of the Environment.
MaxSteps == 2

\* processOutcome calls on one Environment.
MaxOutcomes == 1

\* selectAction calls on one bandit; no update() starts after the last one.
MaxSelects == 1

\* Calls on the EpsilonGreedy policy in one behaviour.
MaxEpsilonCalls == 2

\* addAction and removeAction calls on the ActionSpace in one behaviour.
MaxSpaceCalls == 3

\* Calls on the Map-based ContextualBandit in one behaviour.
\* analyzeAction calls in one behaviour.
MaxAnalyses == 2

MaxMapCalls == 3

\* runEpisode calls in one behaviour.
MaxEpisodes == 2

\* Calls on the MemoryStorage in one behaviour.
MaxStorageCalls == 3

\* Monitor.log calls in one behaviour.
MaxLogCalls == 3

\* ------------------------------------------------------- values and helpers

\* null / undefined
Null == [null |-> TRUE]

\* An optional field that holds a value.
Some(value) == [value |-> value]

RECURSIVE Gcd(_, _)
Gcd(a, b) == IF b = 0 THEN a ELSE Gcd(b, a % b)

Abs(x) == IF x < 0 THEN -x ELSE x

\* The number n / d (d > 0) as a fraction in lowest terms.
Frac(n, d) ==
    LET g == Gcd(Abs(n), d)
    IN  <<n \div g, d \div g>>

\* Rational numbers <<numerator, denominator>> in lowest terms stand for the
\* JavaScript numbers of the reward arithmetic.
Rat(n, d) == Frac(n, d)

\* The JavaScript number NaN: the one pair whose denominator is zero.
NaN == <<0, 0>>

IsNaN(x) == x[2] = 0

\* a + b: NaN when either operand is NaN.
RAdd(a, b) ==
    IF IsNaN(a) \/ IsNaN(b) THEN NaN
    ELSE Frac(a[1] * b[2] + b[1] * a[2], a[2] * b[2])

\* a - b
RSub(a, b) == RAdd(a, <<-b[1], b[2]>>)

\* a * b: NaN when either operand is NaN.
RMul(a, b) ==
    IF IsNaN(a) \/ IsNaN(b) THEN NaN
    ELSE Frac(a[1] * b[1], a[2] * b[2])

\* a < b: false when either operand is NaN.  The common factor of the
\* denominators is divided out before cross-multiplying.
RLess(a, b) ==
    IF IsNaN(a) \/ IsNaN(b) THEN FALSE
    ELSE LET g == Gcd(a[2], b[2])
         IN  a[1] * (b[2] \div g) < b[1] * (a[2] \div g)

\* Math.max(a, b): NaN when either operand is NaN.
RMax(a, b) ==
    IF IsNaN(a) \/ IsNaN(b) THEN NaN ELSE IF RLess(a, b) THEN b ELSE a

\* Math.min(a, b): NaN when either operand is NaN.
RMin(a, b) ==
    IF IsNaN(a) \/ IsNaN(b) THEN NaN ELSE IF RLess(b, a) THEN b ELSE a

\* Math.pow(base, steps) for a whole number of steps.
RECURSIVE RPow(_, _)
RPow(base, steps) == IF steps = 0 THEN <<1, 1>> ELSE RMul(base, RPow(base, steps - 1))

\* Action types of the action space (ActionType enum values).
ActionTypes == {<<"ask_question">>, <<"end_call">>}

\* The action types update() is called with.
UpdatedTypes == {<<"ask_question">>}

\* Context keys, as State.getContextKey produces them.
Contexts == {<<"intent:", "billing">>}

\* config.confidenceBonus ?? 2.0
DefaultConfidenceBonus == 2

\* The action spaces a policy is constructed with, in insertion order.
ActionSpaces ==
    { <<<<"ask_question">>, <<"end_call">>>>, <<<<"end_call">>, <<"ask_question">>>> }

\* Rewards handed to update().
RewardValues == {-1, 2}

\* Values of the initialReward configuration field.
InitialRewards == {0, 3}

\* ---------------------------------------------------------------- variables

VARIABLES
    store,          \* MemoryStorage.store : key -> value or Null
    heap,           \* ArmStats objects by identity (the call that created them)
    calls,          \* the update() calls: position and locals of each
    nCalls,         \* number of update() calls issued
    initialReward,  \* banditConfig.initialReward
    stepCount,      \* Policy.stepCount
    hist,           \* history: per arm, number and reward sum of the updates
                    \* completed since the last reset, kept while serial
    serial,         \* history: per arm, no update since the last reset
                    \* overlapped another update of the arm or the reset
    lost            \* history: per arm, some update since the last reset
                    \* wrote over statistics it had not read

banditVars == <<store, heap, calls, nCalls, initialReward, stepCount, hist,
                serial, lost>>

VARIABLES
    sel,            \* the selectAction call: position, locals and result
    useUCB,         \* banditConfig.useUCB
    confidenceBonus,\* banditConfig.confidenceBonus
    exploring,      \* the exploration rate is above 0
    actionSpace     \* ActionSpace.getAllActions(): types in insertion order

selectVars == <<sel, useUCB, confidenceBonus, exploring, actionSpace>>

VARIABLES
    rules,          \* Guardrails.rules, in insertion order
    whitelist,      \* config.whitelist
    blacklist,      \* config.blacklist
    defaultFallback,\* config.defaultFallback, or Null
    fallbackPolicy, \* config.fallbackPolicy, or Null
    logViolations,  \* config.logViolations
    violations,     \* Guardrails.violations
    counts,         \* the actionCounts map of each stateful rule
    ret             \* the last call on the Guardrails and what it returned

guardVars == <<rules, whitelist, blacklist, defaultFallback, fallbackPolicy,
               logViolations, violations, counts, ret>>

VARIABLES
    currentState,        \* Environment.currentState, or Null
    conversationHistory, \* Environment.conversationHistory
    maxTurns,            \* Environment.maxTurns
    configInitialState,  \* config.initialState of the constructor, or Null
    resetCalled,         \* history: reset() was called since construction
    setStateCalled,      \* history: setState() was called since construction
    envRet,              \* the last call on the Environment and its result
    policy,              \* Environment.policy, or Null
    rewardConfig,        \* Reward.config of Environment.rewardCalculator
    po,                  \* the processOutcome call: position and locals
    updates              \* the Policy.update calls processOutcome issued

outcomeVars == <<policy, rewardConfig, po, updates>>

envVars == <<currentState, conversationHistory, maxTurns, configInitialState,
             resetCalled, setStateCalled, envRet, outcomeVars>>

VARIABLES
    fnCall,              \* the last call of a side-effect-free method: its
                         \* name and arguments
    fnResult             \* what that call returned

fnVars == <<fnCall, fnResult>>

\* No side-effect-free method has been called.
NoFnCall == [op |-> "none"]

VARIABLES
    epsilon,             \* EpsilonGreedy.epsilon
    epsilonMin,          \* EpsilonGreedy.epsilonMin
    epsilonDecay,        \* EpsilonGreedy.epsilonDecay
    basePolicy,          \* EpsilonGreedy.basePolicy, or Null
    epsilonConfig,       \* the configuration the EpsilonGreedy was built with
    epsilonSteps,        \* stepCount of the EpsilonGreedy
    baseCalls,           \* the calls made on the base policy, in order
    egRet                \* the last call on the EpsilonGreedy: arguments,
                         \* epsilon before it, and what it returned

epsilonVars == <<epsilon, epsilonMin, epsilonDecay, basePolicy, epsilonConfig,
                 epsilonSteps, baseCalls, egRet>>

VARIABLES
    spaceActions,        \* ActionSpace.actions: the Map's entries, in
                         \* insertion order
    spaceAdded,          \* history: the actions ever added
    spaceLatest,         \* history: per type, the action added last and
                         \* not removed since, or Null
    spaceRet             \* the last call on the ActionSpace

spaceVars == <<spaceActions, spaceAdded, spaceLatest, spaceRet>>

VARIABLES
    armStats,            \* ContextualBandit.armStats of the Map-based class:
                         \* per (context, action) the ArmStats, or Null
    mapSteps,            \* its stepCount
    mapRet               \* the last call on it and the action it returned

mapVars == <<armStats, mapSteps, mapRet>>

VARIABLES
    via,                 \* per update() call of the bandit, who made it:
                         \* "direct", "epsilon", "outcome" or "outcomeEpsilon"
    settled,             \* per update() call, what the one who made it has
                         \* seen of it: "pending", "resolved" or "rejected"
    run                  \* the processOutcome call on a real policy

callerVars == <<via, settled, run>>

VARIABLES
    customRewards,       \* Reward.config.customRewards: the own properties of
                         \* the object, name -> function
    customRet            \* the last call on the Reward's custom functions

customVars == <<customRewards, customRet>>

VARIABLES
    episode              \* the runEpisode call: where it stands and its locals

episodeVars == <<episode>>

VARIABLES
    memStore,
    memRet   \* a MemoryStorage of its own and the last call on it

memoryVars == <<memStore, memRet>>

VARIABLES
    monConfig,
    monLogs,
    monStats,
    monRet   \* a Monitor: its config, logs, conversation stats and last call

monitorVars == <<monConfig, monLogs, monStats, monRet>>

vars == <<banditVars, selectVars, guardVars, envVars, fnVars, epsilonVars,
          spaceVars, mapVars, callerVars, customVars, episodeVars,
          memoryVars,
          monitorVars>>

\* ------------------------------------------------------- ContextualBandit

getStorageKey(context, actionType) ==
    <<"bandit:arm:">> \o context \o <<":">> \o actionType

getContextKey(context) == <<"bandit:context:">> \o context

ArmKeys == {getStorageKey(c, a) : c \in Contexts, a \in ActionTypes}

CounterKeys == {getContextKey(c) : c \in Contexts}

StorageKeys == ArmKeys \cup CounterKeys

CallIds == 1..MaxCalls

\* MemoryStorage.get: the stored value, or null.
StorageGet(key) == store[key]

\* MemoryStorage.set
StorageSet(st, key, value) == [st EXCEPT ![key] = value]

\* MemoryStorage.clear
StorageClear == [k \in StorageKeys |-> Null]

\* The object getArmStats builds when nothing is stored.
DefaultStatsBuggy ==
    [pulls |-> 0, totalReward |-> initialReward,
     averageReward |-> Frac(initialReward, 1)]

DefaultStats ==
    [pulls |-> 0, totalReward |-> 0, averageReward |-> Frac(initialReward, 1)]

\* update(), lines "stats.pulls += 1 ... stats.averageReward = ...".
UpdatedStatsStaleAverage(s, reward) ==
    [pulls |-> s.pulls + 1,
     totalReward |-> s.totalReward + reward,
     averageReward |-> s.averageReward]

UpdatedStats(s, reward) ==
    [pulls |-> s.pulls + 1,
     totalReward |-> s.totalReward + reward,
     averageReward |-> Frac(s.totalReward + reward, s.pulls + 1)]

\* The reference update() works on after `await getArmStats`: what the
\* storage returned when the call read it, not what is stored now.
StatsRefReread(i) == StorageGet(calls[i].key)

StatsRef(i) == calls[i].got

IdleCall ==
    [pc |-> "idle", context |-> <<>>, key |-> <<>>, reward |-> 0,
     got |-> Null, current |-> 0]

\* A call that has resolved; its locals are gone.
DoneCall(c) == [IdleCall EXCEPT !.pc = "done", !.context = c.context,
                                !.key = c.key]

\* The statistics stored for an arm, or Null.
StoredStats(key) ==
    IF store[key] = Null THEN Null ELSE heap[store[key].ref]

\* The pulls stored for an arm (0 when nothing is stored).
StoredPulls(key) ==
    IF store[key] = Null THEN 0 ELSE heap[store[key].ref].pulls

InFlight(key) ==
    {j \in CallIds : calls[j].key = key
                       /\ calls[j].pc \notin {"idle", "done", "failed"}}

\* Objects no reference leads to are dropped from the heap: the store and
\* the locals of the calls that still use their `stats` are the only roots.
Collect(h, st, cs) ==
    LET roots == {st[k].ref : k \in {x \in ArmKeys : st[x] # Null}}
                 \cup {cs[j].got.ref :
                         j \in {x \in CallIds : cs[x].pc = "getArm"
                                                /\ cs[x].got # Null}}
                 \cup {sel.refs[n].ref :
                         n \in {x \in DOMAIN sel.refs : sel.refs[x] # Null}}
    IN  [o \in CallIds |-> IF o \in roots THEN h[o] ELSE Null]

\* update(): up to the storage read of getArmStats.
UpdateStart(i, context, actionType, reward) ==
    LET key == getStorageKey(context, actionType) IN
    /\ i = nCalls + 1
    /\ i <= MaxCalls
    /\ nCalls' = i
    /\ calls' = [calls EXCEPT ![i] =
            [pc |-> "getArm", context |-> context, key |-> key,
             reward |-> reward, got |-> StorageGet(key), current |-> 0]]
    /\ serial' = [serial EXCEPT ![key] = serial[key] /\ InFlight(key) = {}]
    /\ UNCHANGED <<store, heap, initialReward, stepCount, hist, lost>>

\* update(): getArmStats returns (the stored object or a fresh default), the
\* statistics are changed in place and saveArmStats hands them to the store.
UpdateSave(i) ==
    LET ref   == StatsRef(i)
        obj   == IF ref = Null THEN i ELSE ref.ref
        old   == IF ref = Null THEN DefaultStats ELSE heap[ref.ref]
        key   == calls[i].key
    IN
    /\ calls[i].pc = "getArm"
    /\ store' = StorageSet(store, key, [ref |-> obj])
    /\ calls' = [calls EXCEPT ![i] = [@ EXCEPT !.pc = "saved", !.got = Null]]
    /\ heap' = Collect([heap EXCEPT ![obj] = UpdatedStats(old, calls[i].reward)],
                       store', calls')
    /\ lost' = [lost EXCEPT ![key] = @ \/ (StorageGet(key) # ref)]
    /\ UNCHANGED <<nCalls, initialReward, stepCount, hist, serial>>

\* incrementContextTotalPulls: the read of getContextTotalPulls.
UpdateCtxGet(i) ==
    LET data == StorageGet(getContextKey(calls[i].context)) IN
    /\ calls[i].pc = "saved"
    /\ calls' = [calls EXCEPT ![i] =
            [@ EXCEPT !.pc = "ctxGot",
                      !.current = IF data = Null THEN 0 ELSE data.totalPulls]]
    /\ UNCHANGED <<store, heap, nCalls, initialReward, stepCount, hist, serial,
                   lost>>

\* The counter object written as if every update were the context's first.
IncrementedTotalFromZero(current) == [totalPulls |-> 1]

\* { totalPulls: current + 1 }
IncrementedTotal(current) == [totalPulls |-> current + 1]

\* incrementContextTotalPulls: the write; update() then resolves.
UpdateCtxSet(i) ==
    /\ calls[i].pc = "ctxGot"
    /\ store' = StorageSet(store, getContextKey(calls[i].context),
                           IncrementedTotal(calls[i].current))
    /\ calls' = [calls EXCEPT ![i] = DoneCall(@)]
    /\ hist' = [hist EXCEPT ![calls[i].key] =
            IF serial[calls[i].key]
            THEN [completed |-> @.completed + 1, sum |-> @.sum + calls[i].reward]
            ELSE @]
    /\ UNCHANGED <<heap, nCalls, initialReward, stepCount, serial, lost>>

NoHistory == [completed |-> 0, sum |-> 0]

\* reset(): Policy.reset, then storage.clear().
BanditReset ==
    /\ stepCount' = 0
    /\ store' = StorageClear
    /\ heap' = Collect(heap, store', calls)
    /\ hist' = [k \in ArmKeys |-> NoHistory]
    /\ serial' = [k \in ArmKeys |-> InFlight(k) = {}]
    /\ lost' = [k \in ArmKeys |-> FALSE]
    /\ UNCHANGED <<calls, nCalls, initialReward>>

BanditInit ==
    /\ store = StorageClear
    /\ heap = [o \in CallIds |-> Null]
    /\ calls = [i \in CallIds |-> IdleCall]
    /\ nCalls = 0
    /\ initialReward \in InitialRewards
    /\ stepCount = 0
    /\ hist = [k \in ArmKeys |-> NoHistory]
    /\ serial = [k \in ArmKeys |-> TRUE]
    /\ lost = [k \in ArmKeys |-> FALSE]

BanditNext ==
    \/ \E i \in CallIds, c \in Contexts, a \in UpdatedTypes, r \in RewardValues :
          UpdateStart(i, c, a, r)
    \/ \E i \in CallIds : UpdateSave(i)
    \/ \E i \in CallIds : UpdateCtxGet(i)
    \/ \E i \in CallIds : UpdateCtxSet(i)
    \/ BanditReset

\* ---------------------------------------------- ContextualBandit.selectAction

\* Math.log(n) in millionths, rounded down, for the totals the model reaches.
LnMicro(n) ==
    CASE n = 1 -> 0
      [] n = 2 -> 693147
      [] n = 3 -> 1098612
      [] n = 4 -> 1386294
      [] n = 5 -> 1609437
      [] n = 6 -> 1791759
      [] n = 7 -> 1945910
      [] n = 8 -> 2079441

\* The integer square root, by bisection between low and high.
RECURSIVE ISqrtBetween(_, _, _)
ISqrtBetween(v, low, high) ==
    IF low = high THEN low
    ELSE LET mid == (low + high + 1) \div 2
         IN  IF mid * mid <= v THEN ISqrtBetween(v, mid, high)
             ELSE ISqrtBetween(v, low, mid - 1)

\* Math.sqrt(Math.log(totalPulls) / pulls), in thousandths, rounded down.
SqrtLogMilli(totalPulls, pulls) ==
    ISqrtBetween(LnMicro(totalPulls) \div pulls, 0, 2000)

\* An unpulled arm is worth nothing.
ColdValueZero == <<0, 1>>

\* An unpulled arm is tried before every pulled one.
ColdValueOptimistic == <<1000, 1>>

\* return this.banditConfig.initialReward
ColdValue == Rat(initialReward, 1)

\* stats.averageReward + confidenceBonus * Math.sqrt(Math.log(totalPulls) / stats.pulls)
UCBValue(stats, totalPulls) ==
    RAdd(stats.averageReward,
         Rat(confidenceBonus * SqrtLogMilli(totalPulls, stats.pulls), 1000))

\* The statistics a reference handed out by the storage leads to now.
StatsOf(ref) == IF ref = Null THEN DefaultStats ELSE heap[ref.ref]

\* The last of the largest values wins.
RECURSIVE BestIndexLast(_, _)
BestIndexLast(values, n) ==
    IF n = 1 THEN 1
    ELSE LET best == BestIndexLast(values, n - 1)
         IN  IF ~RLess(values[n], values[best]) THEN n ELSE best

\* The loop of selectBestAction over the first n values: the index of the
\* first value that is larger than every value before it and not smaller
\* than any after it.
RECURSIVE BestIndex(_, _)
BestIndex(values, n) ==
    IF n = 1 THEN 1
    ELSE LET best == BestIndex(values, n - 1)
         IN  IF RLess(values[best], values[n]) THEN n ELSE best

\* config.lookbackWindow ?? 2
LookbackWindow == 2

\* config.repetitionPenalty ?? 1.0
RepetitionPenalty == 1

\* Array.prototype.slice(-n)
LastN(seq, n) ==
    IF Len(seq) <= n THEN seq ELSE SubSeq(seq, Len(seq) - n + 1, Len(seq))

\* Policy.getRepetitionPenalty(actionType, state): the occurrences of the
\* type among the last lookbackWindow agent turns that carry an action,
\* times repetitionPenalty.
GetRepetitionPenalty(actionType, state) ==
    LET agent == SelectSeq(state.history,
                     LAMBDA turn : turn.speaker = "agent" /\ turn.action # Null)
        recent == LastN(agent, LookbackWindow)
        same == SelectSeq(recent, LAMBDA turn : turn.action.value = actionType)
    IN  Len(same) * RepetitionPenalty

\* A turn of state.history, with the action the adapter attached to it.
ActionTurn(speaker, action) ==
    [speaker |-> speaker, text |-> "", action |-> action]

\* The states selectAction is called with.
SelectStates ==
    { [context |-> c, history |-> h] :
        c \in Contexts,
        h \in { <<>>,
                <<ActionTurn("agent", Some(<<"ask_question">>)), ActionTurn("user", Null)>> } }

NoSelect ==
    [pc |-> "idle", state |-> Null, explored |-> FALSE, refs |-> <<>>,
     seen |-> <<>>, totals |-> <<>>, values |-> <<>>, result |-> <<>>,
     quiet |-> FALSE]

\* A selectAction call that has resolved with the action of type result.
Selected(call, values, result) ==
    [call EXCEPT !.pc = "done", !.refs = <<>>, !.totals = <<>>,
                 !.values = values, !.result = result]

\* No update() call is in flight.
NoUpdateInFlight == \A j \in CallIds : calls[j].pc \in {"idle", "done"}

\* selectAction(state): incrementStep; shouldExplore; either a random action
\* or selectBestAction up to the storage reads of getArmStats.
SelectAction(state, explore, pick) ==
    /\ sel.pc \in {"idle", "done"}
    /\ stepCount < MaxSelects
    /\ explore => exploring
    /\ pick \in 1..Len(actionSpace)
    /\ stepCount' = stepCount + 1
    /\ LET call == [NoSelect EXCEPT !.state = state, !.explored = explore,
                                    !.quiet = NoUpdateInFlight]
       IN  IF explore
           THEN sel' = Selected(call, <<>>, actionSpace[pick])
           ELSE /\ pick = 1
                /\ sel' = [call EXCEPT
                       !.pc = "arms",
                       !.refs = [n \in 1..Len(actionSpace) |->
                           StorageGet(getStorageKey(state.context, actionSpace[n]))]]
    /\ UNCHANGED <<store, heap, calls, nCalls, initialReward, hist, serial, lost,
                   useUCB, confidenceBonus, exploring, actionSpace>>

\* getActionValue after getArmStats: an arm without pulls is worth
\* initialReward, an arm under UCB asks for the context's total pulls (the
\* storage read of getContextTotalPulls), any other arm is worth its average.
SelectArms ==
    /\ sel.pc = "arms"
    /\ LET N == 1..Len(actionSpace)
           seen == [n \in N |-> StatsOf(sel.refs[n])]
           data == StorageGet(getContextKey(sel.state.context))
           total == IF data = Null THEN 0 ELSE data.totalPulls
           waits == {n \in N : seen[n].pulls # 0 /\ useUCB}
           values == [n \in N |->
                        IF seen[n].pulls = 0 THEN ColdValue
                        ELSE seen[n].averageReward]
       IN  IF waits = {}
           THEN sel' = [Selected(sel, values, actionSpace[BestIndex(values, Len(values))])
                           EXCEPT !.seen = seen]
           ELSE sel' = [sel EXCEPT
                           !.pc = "counters", !.seen = seen, !.values = values,
                           !.totals = [n \in N |-> IF n \in waits THEN total ELSE -1]]
    /\ UNCHANGED <<banditVars, useUCB, confidenceBonus, exploring, actionSpace>>

\* getActionValue after getContextTotalPulls, for the arms under UCB; then
\* Promise.all resolves and the loop of selectBestAction picks the action.
SelectCounters ==
    /\ sel.pc = "counters"
    /\ LET N == 1..Len(actionSpace)
           values == [n \in N |->
                        IF sel.totals[n] = -1 THEN sel.values[n]
                        ELSE IF sel.totals[n] = 0 THEN ColdValue
                        ELSE UCBValue(StatsOf(sel.refs[n]), sel.totals[n])]
       IN  sel' = Selected(sel, values, actionSpace[BestIndex(values, Len(values))])
    /\ UNCHANGED <<banditVars, useUCB, confidenceBonus, exploring, actionSpace>>

\* toJSON(): { config: this.banditConfig }, the fields selectAction reads.
ToJSON ==
    [config |-> [initialReward |-> initialReward,
                 confidenceBonus |-> confidenceBonus, useUCB |-> useUCB]]

\* new ContextualBandit({ actionSpace }): the default configuration and a
\* MemoryStorage of its own.
FreshBandit ==
    [config |-> [initialReward |-> 0,
                 confidenceBonus |-> DefaultConfidenceBonus, useUCB |-> TRUE],
     storage |-> StorageClear]

\* fromJSON(json): Object.assign(this.banditConfig, json.config); the
\* storage is not touched.
FromJSON(bandit, json) == [bandit EXCEPT !.config = json.config]

\* getActionValue(context, action) of a bandit nobody is updating.
BanditValue(bandit, context, action) ==
    LET stored == bandit.storage[getStorageKey(context, action)]
        stats == IF stored = Null
                 THEN [pulls |-> 0, totalReward |-> 0,
                       averageReward |-> Rat(bandit.config.initialReward, 1)]
                 ELSE heap[stored.ref]
        data == bandit.storage[getContextKey(context)]
        total == IF data = Null THEN 0 ELSE data.totalPulls
    IN  IF stats.pulls = 0 THEN Rat(bandit.config.initialReward, 1)
        ELSE IF bandit.config.useUCB
             THEN IF total = 0 THEN Rat(bandit.config.initialReward, 1)
                  ELSE RAdd(stats.averageReward,
                            Rat(bandit.config.confidenceBonus
                                  * SqrtLogMilli(total, stats.pulls), 1000))
             ELSE stats.averageReward

\* selectBestAction(state) of a bandit nobody is updating.
BanditChoice(bandit, state) ==
    LET values == [n \in 1..Len(actionSpace) |->
                      BanditValue(bandit, state.context, actionSpace[n])]
    IN  actionSpace[BestIndex(values, Len(values))]

\* The bandit as it stands: its configuration and its storage.
ThisBandit == [config |-> ToJSON.config, storage |-> store]

\* A candidate of analyzeAction: an action and its value.
Candidate(action, score) == [action |-> action, score |-> score]

\* The candidate placed before every candidate ranked so far.
InsertRankedFirst(ranked, candidate) == <<candidate>> \o ranked

\* The candidate placed behind the ranked candidates that are worth at
\* least as much.
InsertRanked(ranked, candidate) ==
    LET k == Cardinality({m \in 1..Len(ranked) :
                            ~RLess(ranked[m].score, candidate.score)})
    IN  SubSeq(ranked, 1, k) \o <<candidate>> \o SubSeq(ranked, k + 1, Len(ranked))

\* The candidates ranked descending by value.
RECURSIVE RankDescending(_)
RankDescending(candidates) ==
    IF candidates = <<>> THEN <<>>
    ELSE InsertRanked(RankDescending(SubSeq(candidates, 1, Len(candidates) - 1)),
                      candidates[Len(candidates)])

\* analyzeAction(state) of a bandit nobody is updating: the step counter
\* moves, every action of the action space gets the value of the exploit
\* branch, and the decision is the ranking with its top as the action.
AnalyzeAction(state) ==
    /\ sel.pc \in {"idle", "done"}
    /\ NoUpdateInFlight
    /\ fnCall.op \in {"none", "analyzeAction"}
    /\ IF fnCall = NoFnCall THEN TRUE ELSE fnCall.nth < MaxAnalyses
    /\ stepCount' = stepCount + 1
    /\ LET candidates == [n \in 1..Len(actionSpace) |->
                            Candidate(actionSpace[n],
                                      BanditValue(ThisBandit, state.context,
                                                  actionSpace[n]))]
           ranked == RankDescending(candidates)
       IN  /\ fnCall' = [op |-> "analyzeAction", state |-> state,
                         nth |-> IF fnCall = NoFnCall THEN 1 ELSE fnCall.nth + 1]
           /\ fnResult' = Some([action |-> ranked[1].action,
                                alternatives |-> ranked])
    /\ UNCHANGED <<store, heap, calls, nCalls, initialReward, hist, serial, lost,
                   selectVars>>

\* A bandit whose caller awaits every call before it makes the next:
\* update, selectAction and analyzeAction in any order.
AnalyzeNext ==
    \/ /\ \E i \in CallIds, c \in Contexts, a \in ActionTypes, r \in RewardValues :
             /\ NoUpdateInFlight
             /\ sel.pc \in {"idle", "done"}
             /\ stepCount < MaxSelects
             /\ UpdateStart(i, c, a, r)
       /\ UNCHANGED <<selectVars, fnVars>>
    \/ (\E i \in CallIds : UpdateSave(i)) /\ UNCHANGED <<selectVars, fnVars>>
    \/ (\E i \in CallIds : UpdateCtxGet(i)) /\ UNCHANGED <<selectVars, fnVars>>
    \/ (\E i \in CallIds : UpdateCtxSet(i)) /\ UNCHANGED <<selectVars, fnVars>>
    \/ /\ NoUpdateInFlight
       /\ \E st \in SelectStates, e \in BOOLEAN, k \in 1..2 : SelectAction(st, e, k)
       /\ UNCHANGED fnVars
    \/ SelectArms /\ UNCHANGED fnVars
    \/ SelectCounters /\ UNCHANGED fnVars
    \/ \E st \in SelectStates : AnalyzeAction(st)

\* new ContextualBandit(config), the part selectAction reads.
SelectInit ==
    /\ sel = NoSelect
    /\ useUCB \in BOOLEAN
    /\ confidenceBonus = DefaultConfidenceBonus
    /\ exploring \in BOOLEAN
    /\ actionSpace \in ActionSpaces

\* The configurations of the modelled bandits:
\* <<initialReward, useUCB, exploring, actionSpace>>.
SelectConfigs ==
    { <<0, TRUE, FALSE, <<<<"ask_question">>, <<"end_call">>>>>>,
      <<0, FALSE, TRUE, <<<<"end_call">>, <<"ask_question">>>>>>,
      <<3, TRUE, TRUE, <<<<"end_call">>, <<"ask_question">>>>>>,
      <<3, FALSE, FALSE, <<<<"ask_question">>, <<"end_call">>>>>> }

\* A bandit whose caller awaits each update() before it starts the next,
\* and calls selectAction at any time.
SelectNext ==
    \/ /\ \E i \in CallIds, c \in Contexts, a \in ActionTypes, r \in RewardValues :
             /\ NoUpdateInFlight
             /\ stepCount < MaxSelects
             /\ UpdateStart(i, c, a, r)
       /\ UNCHANGED selectVars
    \/ (\E i \in CallIds : UpdateSave(i)) /\ UNCHANGED selectVars
    \/ (\E i \in CallIds : UpdateCtxGet(i)) /\ UNCHANGED selectVars
    \/ (\E i \in CallIds : UpdateCtxSet(i)) /\ UNCHANGED selectVars
    \/ \E st \in SelectStates, e \in BOOLEAN, k \in 1..2 : SelectAction(st, e, k)
    \/ SelectArms
    \/ SelectCounters

\* ------------------------------------------------------------- Guardrails

\* An Action object: its type, and where the object came from (which stands
\* for its identity, name and description).
Act(type, origin) == [type |-> type, origin |-> origin]

AskQuestion == <<"ask_question">>

EndCall == <<"end_call">>

\* Array.prototype.includes
Includes(seq, x) == \E n \in 1..Len(seq) : seq[n] = x

\* ---- CommonGuardrails and a custom rule.  A rule is a record; `kind`
\* selects its check function.

\* maxTurns argument of CommonGuardrails.maxTurns in the modelled set-up.
RuleMaxTurns == 2

\* maxRepeats argument of CommonGuardrails.noRepeat in the modelled set-up.
NoRepeatMax == 1

\* maxPerConversation argument of CommonGuardrails.rateLimit.
RateLimitMax == 1

MaxTurnsRule ==
    [name |-> <<"max_turns">>, kind |-> "maxTurns", blocking |-> TRUE,
     fallbackAction |-> Act(EndCall, "rule")]

NoRepeatRule ==
    [name |-> <<"no_repeat">>, kind |-> "noRepeat", blocking |-> TRUE,
     fallbackAction |-> Null]

ConfirmRule ==
    [name |-> <<"require_confirmation">>, kind |-> "requireConfirmation",
     blocking |-> TRUE, fallbackAction |-> Null]

RateLimitRule ==
    [name |-> <<"rate_limit_">> \o AskQuestion, kind |-> "rateLimit",
     blocking |-> TRUE, fallbackAction |-> Null]

\* A caller-written rule that only observes: blocking is not set.
AuditRule ==
    [name |-> <<"audit">>, kind |-> "audit", blocking |-> FALSE,
     fallbackAction |-> Null]

\* The rule lists a Guardrails is constructed with.
RuleLists ==
    { <<>>, <<MaxTurnsRule>>, <<NoRepeatRule>>, <<RateLimitRule>>,
      <<ConfirmRule>>, <<AuditRule, MaxTurnsRule>>,
      <<NoRepeatRule, MaxTurnsRule>>, <<MaxTurnsRule, AuditRule>> }

ConversationId == <<"conv1">>

UserTurn(text) == [speaker |-> "user", text |-> text]

AgentTurn(text) == [speaker |-> "agent", text |-> text]

\* The states handed to isSafe and validate.
GuardStates ==
    { [conversationId |-> ConversationId, turnNumber |-> 0, history |-> <<>>],
      [conversationId |-> ConversationId, turnNumber |-> 1,
       history |-> <<AgentTurn("hello"), UserTurn("yes")>>],
      [conversationId |-> ConversationId, turnNumber |-> 2,
       history |-> <<AgentTurn("hello"), UserTurn("yes"),
                     AgentTurn("sure?"), UserTurn("no")>>] }

\* The actions handed to isSafe and validate.
ProposedActions == {Act(t, "caller") : t \in ActionTypes}

\* /yes|confirm|proceed|ok/i.test(text)
Confirms(text) == text \in {"yes", "confirm", "proceed", "ok"}

\* history.filter(t => t.speaker === 'user').pop()
LastUserMessage(history) ==
    LET users == SelectSeq(history, LAMBDA t : t.speaker = "user")
    IN  IF Len(users) = 0 THEN Null ELSE users[Len(users)]

\* The keys of the actionCounts maps of noRepeat and rateLimit.
NoRepeatKey(state, action) == state.conversationId \o <<"_">> \o action.type

RateLimitKey(state) == state.conversationId

CountKeys ==
    {NoRepeatKey(st, a) : st \in GuardStates, a \in ProposedActions}
    \cup {RateLimitKey(st) : st \in GuardStates}

StatefulRules == {NoRepeatRule.name, RateLimitRule.name}

\* rule.check(state, action): the result, and the rule's actionCounts after
\* the call (cnt is the map before it).
CheckRule(rule, cnt, state, action) ==
    CASE rule.kind = "maxTurns" ->
            [viol |-> state.turnNumber >= RuleMaxTurns /\ action.type # EndCall,
             cnt |-> cnt]
      [] rule.kind = "noRepeat" ->
            LET key == NoRepeatKey(state, action)
                count == cnt[key] + 1
            IN  [viol |-> count > NoRepeatMax,
                 cnt |-> [cnt EXCEPT ![key] = count]]
      [] rule.kind = "requireConfirmation" ->
            [viol |-> IF ~Includes(<<EndCall>>, action.type) THEN FALSE
                      ELSE LET m == LastUserMessage(state.history)
                           IN  IF m = Null THEN TRUE ELSE ~Confirms(m.text),
             cnt |-> cnt]
      [] rule.kind = "rateLimit" ->
            IF action.type # AskQuestion THEN [viol |-> FALSE, cnt |-> cnt]
            ELSE LET key == RateLimitKey(state)
                     count == cnt[key] + 1
                 IN  [viol |-> count > RateLimitMax,
                      cnt |-> [cnt EXCEPT ![key] = count]]
      [] rule.kind = "audit" ->
            [viol |-> action.type = AskQuestion, cnt |-> cnt]

\* The whitelist test of isSafe and validate.
WhitelistViolationOffByOne(wl, action) ==
    Len(wl) > 1 /\ ~Includes(wl, action.type)

WhitelistViolation(wl, action) ==
    Len(wl) > 0 /\ ~Includes(wl, action.type)

BlacklistViolation(bl, action) == Includes(bl, action.type)

\* The map of a rule's closure (rules without one share an unused map).
CountsOf(c, rule) ==
    IF rule.name \in StatefulRules THEN c[rule.name]
    ELSE [k \in CountKeys |-> 0]

PutCounts(c, rule, cnt) ==
    IF rule.name \in StatefulRules THEN [c EXCEPT ![rule.name] = cnt] ELSE c

\* The loop of isSafe over rules n, n+1, ...: the answer and the counters.
RECURSIVE IsSafeRules(_, _, _, _)
IsSafeRules(n, c, state, action) ==
    IF n > Len(rules) THEN [safe |-> TRUE, counts |-> c]
    ELSE IF ~rules[n].blocking THEN IsSafeRules(n + 1, c, state, action)
    ELSE LET r == CheckRule(rules[n], CountsOf(c, rules[n]), state, action)
             c2 == PutCounts(c, rules[n], r.cnt)
         IN  IF r.viol THEN [safe |-> FALSE, counts |-> c2]
             ELSE IsSafeRules(n + 1, c2, state, action)

\* isSafe(state, action)
IsSafeResult(state, action) ==
    IF WhitelistViolation(whitelist, action) THEN [safe |-> FALSE, counts |-> counts]
    ELSE IF BlacklistViolation(blacklist, action)
         THEN [safe |-> FALSE, counts |-> counts]
         ELSE IsSafeRules(1, counts, state, action)

\* logViolation: the entry pushed on this.violations.
ViolationEntry(state, action, ruleName, fallbackUsed) ==
    [rule |-> ruleName, action |-> action, state |-> state,
     timestamp |-> "now", fallbackUsed |-> fallbackUsed]

\* A policy whose selectAction returns an Action (the Map-based
\* ContextualBandit) and one whose selectAction is an async function (the
\* storage-backed ContextualBandit, EpsilonGreedy).
SyncPolicy == [selectAction |-> "sync"]

AsyncPolicy == [selectAction |-> "async"]

\* policyAction instanceof Promise
ReturnsPromise(pol) == pol.selectAction = "async"

\* What the fallback policy's selectAction may hand back.
PolicyActions == {Act(AskQuestion, "policy")}

\* handleViolation after its logViolation: the value returned (or the error
\* thrown), given the action `chosen` the fallback policy selects if asked.
ResolveFallbackPolicyFirst(action, ruleName, fallbackAction, chosen) ==
    IF fallbackPolicy # Null
    THEN [value |-> chosen, policyCalls |-> 1]
    ELSE IF fallbackAction # Null
         THEN [value |-> fallbackAction, policyCalls |-> 0]
         ELSE [value |-> [error |-> "No fallback available", rule |-> ruleName],
               policyCalls |-> 0]

ResolveFallback(action, ruleName, fallbackAction, chosen) ==
    IF fallbackAction # Null
    THEN [value |-> fallbackAction, policyCalls |-> 0]
    ELSE IF defaultFallback # Null
    THEN [value |-> defaultFallback, policyCalls |-> 0]
    ELSE IF fallbackPolicy # Null
    THEN [value |-> IF ReturnsPromise(fallbackPolicy) THEN action ELSE chosen,
          policyCalls |-> 1]
    ELSE [value |-> [error |-> "No fallback available", rule |-> ruleName],
          policyCalls |-> 0]

\* handleViolation(state, action, ruleName, fallbackAction)
HandleViolationLogsOnSuccess(state, action, ruleName, fallbackAction, chosen, vs, c) ==
    LET res == ResolveFallback(action, ruleName, fallbackAction, chosen)
    IN  [value |-> res.value, policyCalls |-> res.policyCalls,
         violations |-> IF "error" \in DOMAIN res.value THEN vs
                        ELSE Append(vs, ViolationEntry(state, action, ruleName, TRUE)),
         counts |-> c, blockedBy |-> ruleName]

HandleViolation(state, action, ruleName, fallbackAction, chosen, vs, c) ==
    LET res == ResolveFallback(action, ruleName, fallbackAction, chosen)
    IN  [value |-> res.value, policyCalls |-> res.policyCalls,
         violations |-> Append(vs, ViolationEntry(state, action, ruleName, TRUE)),
         counts |-> c, blockedBy |-> ruleName]

\* Whether validate records the violation of a non-blocking rule.
LogsNonBlocking == logViolations

\* The loop of validate over rules n, n+1, ...
RECURSIVE ValidateRules(_, _, _, _, _, _)
ValidateRules(n, vs, c, state, action, chosen) ==
    IF n > Len(rules)
    THEN [value |-> action, policyCalls |-> 0, violations |-> vs, counts |-> c,
          blockedBy |-> <<>>]
    ELSE LET r == CheckRule(rules[n], CountsOf(c, rules[n]), state, action)
             c2 == PutCounts(c, rules[n], r.cnt)
         IN  IF ~r.viol THEN ValidateRules(n + 1, vs, c2, state, action, chosen)
             ELSE IF rules[n].blocking
             THEN HandleViolation(state, action, rules[n].name,
                                  rules[n].fallbackAction, chosen, vs, c2)
             ELSE IF LogsNonBlocking
             THEN ValidateRules(n + 1,
                      Append(vs, ViolationEntry(state, action, rules[n].name, FALSE)),
                      c2, state, action, chosen)
             ELSE ValidateRules(n + 1, vs, c2, state, action, chosen)

\* validate(state, action)
ValidateResult(state, action, chosen) ==
    IF WhitelistViolation(whitelist, action)
    THEN HandleViolation(state, action, <<"whitelist">>, Null, chosen,
                         violations, counts)
    ELSE IF BlacklistViolation(blacklist, action)
    THEN HandleViolation(state, action, <<"blacklist">>, Null, chosen,
                         violations, counts)
    ELSE ValidateRules(1, violations, counts, state, action, chosen)

NoCall ==
    [op |-> "none", state |-> Null, action |-> Null, value |-> Null,
     policyCalls |-> 0, policyResult |-> Null, blockedBy |-> <<>>]

CountsBelow(n) ==
    \A name \in StatefulRules : \A k \in CountKeys : counts[name][k] < n

IsSafe(state, action) ==
    LET r == IsSafeResult(state, action) IN
    /\ CountsBelow(MaxChecks)
    /\ counts' = r.counts
    /\ ret' = [NoCall EXCEPT !.op = "isSafe", !.state = state,
                             !.action = action, !.value = r.safe]
    /\ UNCHANGED <<rules, whitelist, blacklist, defaultFallback,
                   fallbackPolicy, logViolations, violations>>

Validate(state, action, chosen) ==
    LET r == ValidateResult(state, action, chosen) IN
    /\ CountsBelow(MaxChecks)
    /\ Len(violations) < MaxViolations
    /\ counts' = r.counts
    /\ violations' = r.violations
    /\ ret' = [op |-> "validate", state |-> state, action |-> action,
               value |-> r.value, policyCalls |-> r.policyCalls,
               policyResult |-> IF r.policyCalls > 0 THEN chosen ELSE Null,
               blockedBy |-> r.blockedBy]
    /\ UNCHANGED <<rules, whitelist, blacklist, defaultFallback,
                   fallbackPolicy, logViolations>>

\* allowAction(actionType)
AllowAction(actionType) ==
    /\ whitelist' = IF ~Includes(whitelist, actionType)
                    THEN Append(whitelist, actionType) ELSE whitelist
    /\ ret' = [NoCall EXCEPT !.op = "allowAction"]
    /\ UNCHANGED <<rules, blacklist, defaultFallback, fallbackPolicy,
                   logViolations, violations, counts>>

\* new Guardrails(config)
GuardInit ==
    /\ rules \in RuleLists
    /\ whitelist \in {<<>>, <<EndCall>>}
    /\ blacklist \in {<<>>, <<AskQuestion>>}
    /\ defaultFallback \in {Null, Act(EndCall, "default")}
    /\ fallbackPolicy \in {Null, SyncPolicy, AsyncPolicy}
    /\ logViolations \in BOOLEAN
    /\ violations = <<>>
    /\ counts = [name \in StatefulRules |-> [k \in CountKeys |-> 0]]
    /\ ret = NoCall

GuardNext ==
    \/ \E st \in GuardStates, a \in ProposedActions : IsSafe(st, a)
    \/ \E st \in GuardStates, a \in ProposedActions, ch \in PolicyActions :
          Validate(st, a, ch)
    \/ \E t \in {AskQuestion} : AllowAction(t)

\* ------------------------------------------------------------------ State

\* A feature value: a string, a boolean, a number or anything else.
StringValue(tokens) == [kind |-> "string", value |-> tokens]

BooleanValue(b) == [kind |-> "boolean", flag |-> b]

NumberValue(n, d) == [kind |-> "number", number |-> Frac(n, d)]

ObjectValue == [kind |-> "object"]

\* An entry of Object.entries(features).
Feature(key, value) == [key |-> key, value |-> value]

\* Math.floor(value * 10) / 10
Bucket(number) == Frac((number[1] * 10) \div number[2], 10)

\* The keyParts entry of one feature (<<>> when the loop skips it).
FeaturePart(entry) ==
    CASE entry.value.kind = "string" ->
            <<<<entry.key, ":">> \o entry.value.value>>
      [] entry.value.kind = "boolean" ->
            <<<<entry.key, ":", IF entry.value.flag THEN "true" ELSE "false">>>>
      [] entry.value.kind = "number" ->
            <<<<entry.key, ":", ToString(Bucket(entry.value.number))>>>>
      [] OTHER -> <<>>

RECURSIVE FeatureParts(_)
FeatureParts(features) ==
    IF features = <<>> THEN <<>>
    ELSE FeaturePart(Head(features)) \o FeatureParts(Tail(features))

\* Array.prototype.join(separator) on strings that are token sequences.
RECURSIVE Join(_, _)
Join(parts, separator) ==
    IF parts = <<>> THEN <<>>
    ELSE IF Len(parts) = 1 THEN parts[1]
    ELSE parts[1] \o <<separator>> \o Join(Tail(parts), separator)

\* if (this.data.intent): the intent is present and not the empty string.
HasIntent(data) == data.intent # Null /\ data.intent.value # <<>>

\* The context key with the turn number as a further part.
GetContextKeyWithTurn(data) ==
    Join((IF HasIntent(data) THEN <<<<"intent:">> \o data.intent.value>> ELSE <<>>)
         \o FeatureParts(data.features)
         \o <<<<"turn:", ToString(data.turnNumber)>>>>, "|")

\* State.getContextKey()
GetContextKey(data) ==
    Join((IF HasIntent(data) THEN <<<<"intent:">> \o data.intent.value>> ELSE <<>>)
         \o FeatureParts(data.features), "|")

\* The intents of the states getContextKey is called on.
KeyIntents == {Null, Some(<<>>), Some(<<"billing">>)}

\* The feature objects of those states, as Object.entries lists them.
KeyFeatures ==
    { <<>>,
      <<Feature("tier", StringValue(<<"gold">>))>>,
      <<Feature("vip", BooleanValue(TRUE))>>,
      <<Feature("score", NumberValue(37, 100))>>,
      <<Feature("tier", StringValue(<<"gold">>)), Feature("score", NumberValue(-1, 4))>>,
      <<Feature("raw", ObjectValue)>> }

\* The fields getContextKey does not read, in two variants.
KeyRest ==
    { [conversationId |-> ConversationId, turnNumber |-> 0, history |-> <<>>,
       userInfo |-> Null, metadata |-> Null],
      [conversationId |-> <<"conv2">>, turnNumber |-> 3,
       history |-> <<UserTurn("yes")>>, userInfo |-> Some(<<"ann">>),
       metadata |-> Some(<<"vip">>)] }

KeyStates ==
    { [conversationId |-> r.conversationId, turnNumber |-> r.turnNumber,
       history |-> r.history, userInfo |-> r.userInfo, metadata |-> r.metadata,
       intent |-> i, features |-> f] :
         i \in KeyIntents, f \in KeyFeatures, r \in KeyRest }

\* getContextKey() on two State objects.
GetContextKeys(a, b) ==
    /\ fnCall' = [op |-> "getContextKey", a |-> a, b |-> b]
    /\ fnResult' = [a |-> GetContextKey(a), b |-> GetContextKey(b)]

FnInit == fnCall = NoFnCall /\ fnResult = Null

ContextKeyNext == \E a \in KeyStates, b \in KeyStates : GetContextKeys(a, b)

\* States whose intent and feature strings are spelled character by
\* character, ':' included, so that equal keys are equal strings.
SpelledStates ==
    [intent : {Null, Some(<<"a">>), Some(<<"a", ":", "b">>)},
     features : {<<>>, <<Feature("k", StringValue(<<"v">>))>>}]

\* Action types spelled the same way, with and without ':'.
SpelledTypes == {<<"c">>, <<"d">>, <<"b", ":", "c">>}

\* The keys update and selectAction derive for a state and an action type:
\* context = state.getContextKey(), then getStorageKey and getContextKey.
DerivedKeys(data, actionType) ==
    LET context == GetContextKey(data)
    IN  [context |-> context, actionType |-> actionType,
         arm |-> getStorageKey(context, actionType),
         counter |-> getContextKey(context)]

\* The keys of two (state, action type) pairs.
DeriveKeys(a, typeA, b, typeB) ==
    /\ fnCall' = [op |-> "storageKeys", a |-> a, b |-> b]
    /\ fnResult' = [a |-> DerivedKeys(a, typeA), b |-> DerivedKeys(b, typeB)]

StorageKeyNext ==
    \E a \in SpelledStates, b \in SpelledStates,
       typeA \in SpelledTypes, typeB \in SpelledTypes :
        DeriveKeys(a, typeA, b, typeB)

\* ----------------------------------------------------------------- Reward

\* Reward.normalize: Math.max(-1, Math.min(1, reward))
RNormalize(reward) == RMax(<<-1, 1>>, RMin(<<1, 1>>, reward))

\* JavaScript truthiness of an optional number field: 0 and NaN are falsy.
TruthyNumber(field) == field # Null /\ field.value[1] # 0

\* JavaScript truthiness of an optional boolean field.
TruthyFlag(field) == field # Null /\ field.value

\* if (outcome.metrics?.userSatisfaction) reward += (userSatisfaction - 0.5) * 0.5
SatisfactionBonus(outcome) ==
    IF TruthyNumber(outcome.userSatisfaction)
    THEN RMul(RSub(outcome.userSatisfaction.value, <<1, 2>>), <<1, 2>>)
    ELSE <<0, 1>>

\* if (outcome.metrics?.goalAchieved) reward += 0.5
GoalBonus(outcome) ==
    IF TruthyFlag(outcome.goalAchieved) THEN <<1, 2>> ELSE <<0, 1>>

\* Seconds after which a conversation is penalised.
LongDuration == 600

\* if (outcome.metrics?.duration && duration > 600) reward -= 0.2
DurationPenalty(outcome) ==
    IF TruthyNumber(outcome.duration)
       /\ RLess(<<LongDuration, 1>>, outcome.duration.value)
    THEN <<1, 5>> ELSE <<0, 1>>

\* Reward.calculateDelayed(outcome).value
CalculateDelayed(outcome) ==
    LET base == IF outcome.success THEN <<1, 1>> ELSE <<-1, 1>>
    IN  RNormalize(RSub(RAdd(RAdd(base, SatisfactionBonus(outcome)),
                             GoalBonus(outcome)),
                        DurationPenalty(outcome)))

\* Reward.combine(signals) for signals [value, type].
RECURSIVE CombineSum(_, _)
CombineSum(signals, config) ==
    IF signals = <<>> THEN <<0, 1>>
    ELSE LET signal == signals[Len(signals)]
             weight == IF signal.type = "immediate" THEN config.immediateWeight
                       ELSE config.delayedWeight
         IN  RAdd(CombineSum(SubSeq(signals, 1, Len(signals) - 1), config),
                  RMul(signal.value, weight))

Combine(signals, config) == RNormalize(CombineSum(signals, config))

\* Reward.discount(reward, steps)
Discount(reward, steps, config) == RMul(reward, RPow(config.discountFactor, steps))

\* ------------------------------------------------------------ Environment

\* config.maxTurns ?? 50
DefaultMaxTurns == 50

\* Reward.calculateImmediate penalises states past this turn.
LongConversation == 20

\* Rewards are counted in tenths.
RewardUnit == 10

\* A ConversationTurn of a State's history.
Turn(speaker, text) == [speaker |-> speaker, text |-> text, timestamp |-> "now"]

\* ConversationState values handed to the constructor, reset and setState.
EnvStateData ==
    { [conversationId |-> ConversationId, turnNumber |-> 0, history |-> <<>>],
      [conversationId |-> ConversationId, turnNumber |-> LongConversation + 1,
       history |-> <<Turn("user", "hi")>>] }

\* Action objects handed to step.
EnvActions ==
    { [type |-> AskQuestion, name |-> "Ask", origin |-> "caller"],
      [type |-> EndCall, name |-> "Goodbye", origin |-> "caller"] }

\* The userResponse argument of step: absent, empty or a reply.
UserResponses == {Null, [text |-> ""], [text |-> "yes"]}

\* config.maxTurns of the modelled set-ups.
MaxTurnsChoices == {2, DefaultMaxTurns}

\* new State(data)
NewState(data) == [data |-> data]

\* The constructor ignores config.initialState.
ConstructStateIgnored(initialState) == Null

\* The constructor's currentState: a State when config.initialState is given.
ConstructState(initialState) ==
    IF initialState # Null THEN NewState(initialState) ELSE Null

\* Reward.normalize: Math.max(-1, Math.min(1, reward))
Normalize(reward) ==
    IF reward > RewardUnit THEN RewardUnit
    ELSE IF reward < -RewardUnit THEN -RewardUnit ELSE reward

\* Reward.calculateImmediate(state, action) with no feedback.
CalculateImmediate(data) ==
    Normalize(IF data.turnNumber > LongConversation THEN -1 ELSE 0)

\* The state reset() installs.
ResetState(cs, initialState) ==
    IF initialState # Null THEN NewState(initialState)
    ELSE IF cs = Null
    THEN NewState([conversationId |-> <<"conv_", "now">>, turnNumber |-> 0,
                   history |-> <<>>])
    ELSE NewState([cs.data EXCEPT !.turnNumber = 0, !.history = <<>>])

\* The successor state data with a user turn for every response handed in,
\* the empty string included.
NextStateDataAnyResponse(data, action, userResponse) ==
    LET agent == Append(data.history, Turn("agent", action.name))
    IN  [data EXCEPT
            !.turnNumber = @ + 1,
            !.history = IF userResponse # Null
                        THEN Append(agent, Turn("user", userResponse.text))
                        ELSE agent]

\* The successor state data step() builds.
NextStateData(data, action, userResponse) ==
    LET agent == Append(data.history, Turn("agent", action.name))
    IN  [data EXCEPT
            !.turnNumber = @ + 1,
            !.history = IF userResponse # Null /\ userResponse.text # ""
                        THEN Append(agent, Turn("user", userResponse.text))
                        ELSE agent]

NoEnvCall ==
    [op |-> "none", action |-> Null, userResponse |-> Null, threw |-> FALSE,
     message |-> "", nextState |-> Null, reward |-> 0, done |-> FALSE,
     historyLength |-> 0]

\* A ConversationOutcome: success and the optional metrics.
Outcome(success, userSatisfaction, goalAchieved, duration) ==
    [success |-> success, userSatisfaction |-> userSatisfaction,
     goalAchieved |-> goalAchieved, duration |-> duration]

\* The outcomes handed to processOutcome.
EnvOutcomes ==
    { Outcome(TRUE, Null, Null, Null), Outcome(FALSE, Null, Some(TRUE), Null) }

\* new Reward(): immediateWeight 0.3, delayedWeight 0.7, discountFactor 0.99
DefaultRewardConfig ==
    [immediateWeight |-> <<3, 10>>, delayedWeight |-> <<7, 10>>,
     discountFactor |-> <<99, 100>>]

\* Reward configurations of the modelled set-ups.
RewardConfigs ==
    { DefaultRewardConfig,
      [immediateWeight |-> <<1, 1>>, delayedWeight |-> <<2, 1>>,
       discountFactor |-> <<1, 2>>] }

\* A policy that is given to the Environment; its update calls are recorded.
RecordingPolicy == [name |-> "policy"]

\* No processOutcome call has been made.
NoOutcome ==
    [pc |-> "idle", index |-> 0, delayed |-> <<0, 1>>, first |-> 0,
     calls |-> 0, threw |-> FALSE, clean |-> TRUE, again |-> FALSE]

\* History: the episode changed under a processOutcome call.
Touch(p) == IF p.pc = "idle" THEN p ELSE [p EXCEPT !.clean = FALSE]

\* stepsFromEnd counted from the first step.
StepsFromStart(length, index) == index - 1

\* stepsFromEnd = conversationHistory.length - 1 - i   (index = i + 1)
StepsFromEnd(length, index) == length - index

\* The Policy.update call of the loop body for the entry at index.
CreditCall(history, index, delayed, config) ==
    LET entry == history[index]
        discounted == Discount(delayed, StepsFromEnd(Len(history), index), config)
    IN  [state |-> entry.state, action |-> entry.action,
         reward |-> Combine(<<[value |-> Rat(entry.reward, RewardUnit),
                               type |-> "immediate"],
                              [value |-> discounted, type |-> "delayed"]>>,
                            config)]

\* History: the call follows a processOutcome call that has resolved, with
\* no reset and no step since that call began.
Repeats(p) == p.pc = "done" /\ p.clean

\* The loop starts past the steps an earlier call has credited.
StartIndexUncredited == IF Repeats(po) THEN 0 ELSE Len(conversationHistory)

\* let i = this.conversationHistory.length - 1   (index = i + 1)
StartIndex == Len(conversationHistory)

\* processOutcome(outcome) up to its first await, in a behaviour of at most
\* limit such calls.
ProcessOutcomeWithin(outcome, limit) ==
    /\ po.pc \in {"idle", "done"}
    /\ po.calls < limit
    /\ LET delayed == CalculateDelayed(outcome)
           n == StartIndex
           started == [NoOutcome EXCEPT !.delayed = delayed,
                          !.first = Len(updates), !.calls = po.calls + 1,
                          !.again = Repeats(po)]
       IN  IF policy = Null \/ n = 0
           THEN /\ po' = [started EXCEPT !.pc = "done"]
                /\ UNCHANGED updates
           ELSE /\ po' = [started EXCEPT !.pc = "awaiting", !.index = n]
                /\ updates' = Append(updates,
                       CreditCall(conversationHistory, n, delayed, rewardConfig))
    /\ UNCHANGED <<currentState, conversationHistory, maxTurns,
                   configInitialState, resetCalled, setStateCalled, envRet,
                   policy, rewardConfig>>

\* processOutcome(outcome) up to its first await.
ProcessOutcome(outcome) == ProcessOutcomeWithin(outcome, MaxOutcomes)

\* processOutcome after an awaited Policy.update has resolved: i--, then the
\* next iteration up to its await, or the end of the loop.
ProcessOutcomeResume ==
    /\ po.pc = "awaiting"
    /\ LET index == po.index - 1
       IN  IF index < 1
           THEN /\ po' = [po EXCEPT !.pc = "done", !.index = index]
                /\ UNCHANGED updates
           ELSE IF index > Len(conversationHistory)
           THEN \* conversationHistory[i] is undefined: the destructuring throws
                /\ po' = [po EXCEPT !.pc = "done", !.index = index,
                                    !.threw = TRUE]
                /\ UNCHANGED updates
           ELSE /\ po' = [po EXCEPT !.index = index]
                /\ updates' = Append(updates,
                       CreditCall(conversationHistory, index, po.delayed,
                                  rewardConfig))
    /\ UNCHANGED <<currentState, conversationHistory, maxTurns,
                   configInitialState, resetCalled, setStateCalled, envRet,
                   policy, rewardConfig>>

\* reset(initialState?)
Reset(initialState) ==
    /\ currentState' = ResetState(currentState, initialState)
    /\ conversationHistory' = <<>>
    /\ resetCalled' = TRUE
    /\ envRet' = [NoEnvCall EXCEPT !.op = "reset", !.nextState = currentState']
    /\ po' = Touch(po)
    /\ UNCHANGED <<maxTurns, configInitialState, setStateCalled, policy,
                   rewardConfig, updates>>

\* step(action, userResponse?) on an Environment without a current state.
StepThrows(action, userResponse) ==
    /\ currentState = Null
    /\ envRet' = [NoEnvCall EXCEPT
            !.op = "step", !.action = action, !.userResponse = userResponse,
            !.threw = TRUE,
            !.message = "Environment not initialized. Call reset() first."]
    /\ UNCHANGED <<currentState, conversationHistory, maxTurns,
                   configInitialState, resetCalled, setStateCalled, outcomeVars>>

\* done, with the turn limit reached only when it is passed.
StepDoneLimitPassed(action, nextData, limit) ==
    action.type = EndCall \/ nextData.turnNumber > limit

\* done = action.type === 'end_call' || nextState.data.turnNumber >= maxTurns
StepDone(action, nextData, limit) ==
    action.type = EndCall \/ nextData.turnNumber >= limit

\* step(action, userResponse?) on an Environment with a current state.
StepReturns(action, userResponse) ==
    /\ currentState # Null
    /\ Len(conversationHistory) < MaxSteps
    /\ LET nextState ==
               NewState(NextStateData(currentState.data, action, userResponse))
           immediateReward == CalculateImmediate(currentState.data)
           done == StepDone(action, nextState.data, maxTurns)
       IN  /\ conversationHistory' =
                  Append(conversationHistory,
                         [state |-> currentState, action |-> action,
                          reward |-> immediateReward])
           /\ currentState' = nextState
           /\ envRet' = [NoEnvCall EXCEPT
                  !.op = "step", !.action = action,
                  !.userResponse = userResponse, !.nextState = nextState,
                  !.reward = immediateReward, !.done = done,
                  !.historyLength = Len(conversationHistory')]
    /\ po' = Touch(po)
    /\ UNCHANGED <<maxTurns, configInitialState, resetCalled, setStateCalled,
                   policy, rewardConfig, updates>>

\* setState(state)
SetState(state) ==
    /\ currentState' = state
    /\ setStateCalled' = TRUE
    /\ envRet' = [NoEnvCall EXCEPT !.op = "setState"]
    /\ UNCHANGED <<conversationHistory, maxTurns, configInitialState,
                   resetCalled, outcomeVars>>

\* new Environment(config)
EnvInit ==
    /\ configInitialState \in EnvStateData \cup {Null}
    /\ currentState = ConstructState(configInitialState)
    /\ conversationHistory = <<>>
    /\ maxTurns \in MaxTurnsChoices
    /\ resetCalled = FALSE
    /\ setStateCalled = FALSE
    /\ envRet = NoEnvCall
    /\ policy \in {Null, RecordingPolicy}
    /\ rewardConfig \in RewardConfigs
    /\ po = NoOutcome
    /\ updates = <<>>

EnvNext ==
    \/ \E d \in EnvStateData \cup {Null} : Reset(d)
    \/ \E a \in EnvActions, u \in UserResponses : StepThrows(a, u)
    \/ \E a \in EnvActions, u \in UserResponses : StepReturns(a, u)
    \/ \E d \in EnvStateData : SetState(NewState(d))

\* An Environment whose episodes are credited to its policy.
OutcomeNext ==
    \/ \E d \in EnvStateData \cup {Null} : Reset(d)
    \/ \E a \in EnvActions : StepReturns(a, Null)
    \/ \E o \in EnvOutcomes : ProcessOutcome(o)
    \/ ProcessOutcomeResume

\* An Environment whose caller asks for the credit of an episode again.
RepeatNext ==
    \/ Reset(Null)
    \/ \E a \in EnvActions : StepReturns(a, Null)
    \/ \E o \in EnvOutcomes : ProcessOutcomeWithin(o, MaxOutcomes + 1)
    \/ ProcessOutcomeResume

\* ------------------------------------------------- Environment.runEpisode

\* What the simulator returns: { userResponse, done }.
SimulatorResults ==
    [userResponse : UserResponses \ {Null}, done : BOOLEAN]

\* config.maxTurns of the set-ups that run whole episodes.
ShortEpisode == CHOOSE n \in MaxTurnsChoices : n < DefaultMaxTurns

NoEpisode ==
    [pc |-> "idle", calls |-> 0, start |-> 0, steps |-> 0, done |-> FALSE,
     stepDone |-> FALSE, simulatorDone |-> FALSE, totalReward |-> 0,
     outcome |-> Null]

EpisodeIdle == episode = NoEpisode

\* The ConversationOutcome runEpisode returns.
EpisodeOutcome(totalReward, duration) ==
    [success |-> totalReward > 0,
     metrics |-> [totalReward |-> totalReward, duration |-> duration]]

\* runEpisode(initialState, simulator) up to its first await: the error
\* without a policy, else reset(initialState) and the first turn of the
\* loop up to policy.selectAction.
RunEpisode(initialState) ==
    /\ episode.pc \in {"idle", "returned", "threw"}
    /\ episode.calls < MaxEpisodes
    /\ IF policy = Null
       THEN /\ episode' = [NoEpisode EXCEPT !.pc = "threw",
                                            !.calls = episode.calls + 1]
            /\ UNCHANGED envVars
       ELSE /\ Reset(initialState)
            /\ episode' = [NoEpisode EXCEPT
                   !.pc = "selecting", !.calls = episode.calls + 1,
                   !.start = initialState.turnNumber]

\* The loop condition tested after one step only.
EpisodeGoesOnOnce(done, steps) == ~done /\ steps < 1

\* while (!done && this.currentState), after a step
EpisodeGoesOn(done, steps) == ~done /\ currentState' # Null

\* runEpisode after the awaited selectAction resolved with the action: the
\* simulator answers, step is taken, and the loop either goes on to the
\* next selectAction or ends with the outcome.
EpisodeTurn(action, simulated) ==
    /\ episode.pc = "selecting"
    /\ StepReturns(action, simulated.userResponse)
    /\ LET totalReward == episode.totalReward + envRet'.reward
           done == envRet'.done \/ simulated.done
           steps == episode.steps + 1
           turned == [episode EXCEPT
                         !.steps = steps, !.done = done,
                         !.stepDone = envRet'.done,
                         !.simulatorDone = simulated.done,
                         !.totalReward = totalReward]
       IN  IF EpisodeGoesOn(done, steps)
           THEN episode' = turned
           ELSE episode' = [turned EXCEPT
                    !.pc = "returned",
                    !.outcome = Some(EpisodeOutcome(totalReward,
                                         Len(conversationHistory')))]

EpisodeNext ==
    \/ \E d \in EnvStateData : RunEpisode(d)
    \/ \E a \in EnvActions, r \in SimulatorResults : EpisodeTurn(a, r)

\* ------------------------------------------------------ claims: runEpisode

Larger(a, b) == IF a >= b THEN a ELSE b

\* C34 (safety part): a runEpisode call takes at most
\* max(1, maxTurns - initialState.turnNumber) steps; when it has returned, it
\* took at least one step and the last one had result.done or the
\* simulator's done flag set; and no Policy.update call was issued.
C34_EpisodeBounded ==
    /\ episode.steps <= Larger(1, maxTurns - episode.start)
    /\ episode.pc = "returned" =>
           /\ episode.steps >= 1
           /\ episode.stepDone \/ episode.simulatorDone
           /\ episode.stepDone = envRet.done
    /\ episode.pc = "selecting" => ~episode.done
    /\ updates = <<>>

\* C34: runEpisode terminates whenever the policy and the simulator return,
\* within max(1, maxTurns - initialState.turnNumber) steps, its last step
\* done by the step result or by the simulator, and without any
\* Policy.update call.
C34_EpisodeTerminates ==
    /\ []C34_EpisodeBounded
    /\ (episode.pc = "selecting") ~> (episode.pc = "returned")

\* An episode that ran to the turn limit: two steps from turn 0, the
\* simulator never asking to stop.
C34_Witness ==
    /\ episode.pc = "returned"
    /\ episode.start = 0
    /\ episode.steps = maxTurns
    /\ episode.stepDone /\ ~episode.simulatorDone
    /\ policy # Null

\* ----------------------------------------------------------- Reward calls

\* feedback?.sentiment values; a missing feedback is Null.
Feedbacks ==
    {Null} \cup {[sentiment |-> s] : s \in {"positive", "negative", "neutral"}}

\* Turn numbers on both sides of the long-conversation threshold.
ImmediateTurns == {0, LongConversation, LongConversation + 1}

\* Reward.calculateImmediate(state, action, feedback).value
ImmediateReward(turnNumber, feedback) ==
    LET sentiment ==
            IF feedback # Null /\ feedback.sentiment = "positive" THEN <<1, 2>>
            ELSE IF feedback # Null /\ feedback.sentiment = "negative"
                 THEN <<-1, 2>> ELSE <<0, 1>>
        long == IF turnNumber > LongConversation THEN <<1, 10>> ELSE <<0, 1>>
    IN  RNormalize(RSub(sentiment, long))

\* metrics.userSatisfaction values, zero among them.
Satisfactions == {Null, Some(<<0, 1>>), Some(<<1, 2>>), Some(<<1, 1>>)}

\* metrics.duration values on both sides of the threshold.
Durations == {Null, Some(<<LongDuration, 1>>), Some(<<LongDuration + 1, 1>>)}

\* The outcomes handed to calculateDelayed.
DelayedOutcomes ==
    { Outcome(success, satisfaction, goal, duration) :
        success \in BOOLEAN, satisfaction \in Satisfactions,
        goal \in {Null, Some(TRUE), Some(FALSE)}, duration \in Durations }

\* RewardSignal: value and type.
Signals ==
    [value : {<<1, 1>>, <<-1, 1>>, <<3, 1>>, NaN}, type : {"immediate", "delayed"}]

\* The signal lists handed to combine: up to two signals.
SignalLists ==
    {<<>>} \cup {<<a>> : a \in Signals} \cup {<<a, b>> : a \in Signals, b \in Signals}

\* A call of calculateImmediate and its value.
CalculateImmediateCall(turnNumber, feedback) ==
    /\ fnCall' = [op |-> "calculateImmediate", turnNumber |-> turnNumber,
                  feedback |-> feedback]
    /\ fnResult' = Some(ImmediateReward(turnNumber, feedback))

\* A call of calculateDelayed and its value.
CalculateDelayedCall(outcome) ==
    /\ fnCall' = [op |-> "calculateDelayed", outcome |-> outcome]
    /\ fnResult' = Some(CalculateDelayed(outcome))

\* A call of combine on a Reward built with the configuration.
CombineCall(signals, config) ==
    /\ fnCall' = [op |-> "combine", signals |-> signals, config |-> config]
    /\ fnResult' = Some(Combine(signals, config))

RewardNext ==
    \/ \E t \in ImmediateTurns, f \in Feedbacks : CalculateImmediateCall(t, f)
    \/ \E o \in DelayedOutcomes : CalculateDelayedCall(o)
    \/ \E l \in SignalLists, c \in RewardConfigs : CombineCall(l, c)

\* ---------------------------------------------------- Reward: custom rewards

\* The names calculateCustom and registerCustomReward are called with.
CustomNames == {"bonus", "penalty", "toString"}

\* A JavaScript value a reward function returns: a number or a string.
JsNumber(r) == [number |-> r]

JsString(s) == [string |-> s]

\* ToNumber, as Math.min and Math.max apply it: a string that is not a
\* numeric literal is NaN.
ToNumber(v) == IF "string" \in DOMAIN v THEN NaN ELSE v.number

\* A reward function, by the value it returns.
Returning(v) == [returns |-> v]

\* The functions registered: (state, action, outcome) => number.
CustomFunctions ==
    { Returning(JsNumber(r)) : r \in {<<-3, 1>>, <<1, 2>>, <<2, 1>>, NaN} }

\* What every object literal inherits: Object.prototype.toString, which
\* called as a plain function returns "[object Undefined]".
ObjectPrototype ==
    [name \in {"toString"} |-> Returning(JsString("[object Undefined]"))]

\* customRewards: config.customRewards ?? {}
NoCustomRewards == [name \in CustomNames |-> Null]

\* this.config.customRewards[name]: the own property, else the inherited
\* one, else undefined.
CustomLookup(rewards, name) ==
    IF rewards[name] # Null THEN rewards[name]
    ELSE IF name \in DOMAIN ObjectPrototype THEN Some(ObjectPrototype[name])
    ELSE Null

NotFound == [error |-> "Custom reward function not found"]

NoCustomCall == [op |-> "none", name |-> "", before |-> NoCustomRewards,
                 result |-> Null]

CustomInit ==
    /\ customRewards \in
          { NoCustomRewards,
            [NoCustomRewards EXCEPT !["bonus"] = Some(Returning(JsNumber(<<2, 1>>)))] }
    /\ customRet = NoCustomCall

\* A Reward without custom functions that nobody calls.
CustomIdle == customRewards = NoCustomRewards /\ customRet = NoCustomCall

\* calculateCustom(name, state, action, outcome)
CalculateCustom(name) ==
    LET fn == CustomLookup(customRewards, name)
    IN  /\ customRet' =
              [op |-> "calculateCustom", name |-> name, before |-> customRewards,
               result |-> IF fn = Null THEN NotFound
                          ELSE Some(RNormalize(ToNumber(fn.value.returns)))]
        /\ UNCHANGED customRewards

\* registerCustomReward(name, fn)
RegisterCustomReward(name, fn) ==
    /\ customRewards' = [customRewards EXCEPT ![name] = Some(fn)]
    /\ customRet' = [op |-> "registerCustomReward", name |-> name,
                     before |-> customRewards, result |-> Null]

CustomNext ==
    \/ \E name \in CustomNames : CalculateCustom(name)
    \/ \E name \in CustomNames, fn \in CustomFunctions :
          RegisterCustomReward(name, fn)

\* ----------------------------------------------------------- EpsilonGreedy

\* config.epsilon ?? config.explorationRate ?? 0.1
DefaultEpsilon == <<1, 10>>

\* config.epsilonMin ?? config.minExplorationRate ?? 0.01
DefaultEpsilonMin == <<1, 100>>

\* config.epsilonDecay ?? config.explorationDecay ?? 0.995
DefaultEpsilonDecay == <<199, 200>>

\* a ?? b
Nullish(a, b) == IF a # Null THEN a.value ELSE b

\* A base policy that records the calls made on it.
BasePolicy == [name |-> "base"]

\* The EpsilonGreedyConfig objects the policy is built with.
EpsilonGreedyConfigs ==
    [epsilon : {Null, Some(<<0, 1>>), Some(<<1, 2>>)},
     explorationRate : {Null, Some(<<1, 5>>)},
     epsilonMin : {Null, Some(<<1, 4>>)},
     minExplorationRate : {Null},
     epsilonDecay : {Null, Some(<<1, 2>>)},
     explorationDecay : {Null},
     basePolicy : {Null, BasePolicy}]

\* Values Math.random() returns.
Draws == {<<0, 1>>, <<3, 10>>}

\* Arguments of setEpsilon, below and above the clamp.
EpsilonArguments == {<<0, 1>>, <<1, 2>>, <<2, 1>>}

\* The (state, action, reward) triples update is called with.
UpdateArguments ==
    { [state |-> <<"intent:", "billing">>, action |-> <<"ask_question">>,
       reward |-> <<1, 1>>],
      [state |-> <<"intent:", "billing">>, action |-> <<"end_call">>,
       reward |-> <<-1, 2>>],
      [state |-> <<"intent:", "support">>, action |-> <<"end_call">>,
       reward |-> <<1, 1>>] }

\* A call on the base policy.
BaseCall(op, state, action, reward) ==
    [op |-> op, state |-> state, action |-> action, reward |-> reward]

\* A call on the EpsilonGreedy: its arguments, epsilon before it, whether
\* it explored and the action it returned.
EpsilonCall(op, arguments, before, explored, result) ==
    [op |-> op, calls |-> egRet.calls + 1, arguments |-> arguments,
     before |-> before, explored |-> explored, result |-> result]

\* The constructor.
EpsilonInit ==
    \E config \in EpsilonGreedyConfigs :
        /\ epsilonConfig = config
        /\ epsilon = Nullish(config.epsilon,
                             Nullish(config.explorationRate, DefaultEpsilon))
        /\ epsilonMin = Nullish(config.epsilonMin,
                                Nullish(config.minExplorationRate,
                                        DefaultEpsilonMin))
        /\ epsilonDecay = Nullish(config.epsilonDecay,
                                  Nullish(config.explorationDecay,
                                          DefaultEpsilonDecay))
        /\ basePolicy = config.basePolicy
        /\ epsilonSteps = 0
        /\ baseCalls = <<>>
        /\ egRet = [op |-> "none", calls |-> 0, arguments |-> Null,
                    before |-> Null, explored |-> FALSE, result |-> Null]

\* setBasePolicy(policy)
SetBasePolicy ==
    /\ egRet.calls < MaxEpsilonCalls
    /\ basePolicy' = BasePolicy
    /\ egRet' = EpsilonCall("setBasePolicy", Null, Some(epsilon), FALSE, Null)
    /\ UNCHANGED <<epsilon, epsilonMin, epsilonDecay, epsilonConfig,
                   epsilonSteps, baseCalls>>

\* selectAction(state): Math.random() returns draw; pick is the action the
\* random choice, or the base policy, comes up with.
EpsilonSelectAction(state, draw, pick) ==
    LET explored == RLess(draw, epsilon)
    IN  /\ egRet.calls < MaxEpsilonCalls
        /\ epsilonSteps' = epsilonSteps + 1
        /\ baseCalls' =
              IF ~explored /\ basePolicy # Null
              THEN Append(baseCalls, BaseCall("selectAction", state, Null, Null))
              ELSE baseCalls
        /\ egRet' = EpsilonCall("selectAction", Some(state), Some(epsilon),
                                explored, Some(pick))
        /\ UNCHANGED <<epsilon, epsilonMin, epsilonDecay, basePolicy,
                       epsilonConfig>>

\* Decayed epsilon without the floor.
DecayedEpsilonUnfloored(current, minimum, decay) == RMul(current, decay)

\* Math.max(this.epsilonMin, this.epsilon * this.epsilonDecay)
DecayedEpsilon(current, minimum, decay) ==
    RMax(minimum, RMul(current, decay))

\* update(state, action, reward)
EpsilonUpdate(arguments) ==
    /\ egRet.calls < MaxEpsilonCalls
    /\ epsilon' = DecayedEpsilon(epsilon, epsilonMin, epsilonDecay)
    /\ baseCalls' =
          IF basePolicy # Null
          THEN Append(baseCalls, BaseCall("update", arguments.state,
                                          arguments.action, arguments.reward))
          ELSE baseCalls
    /\ egRet' = EpsilonCall("update", Some(arguments), Some(epsilon), FALSE, Null)
    /\ UNCHANGED <<epsilonMin, epsilonDecay, basePolicy, epsilonConfig,
                   epsilonSteps>>

\* setEpsilon(value): Math.max(this.epsilonMin, Math.min(1.0, value))
SetEpsilon(value) ==
    /\ egRet.calls < MaxEpsilonCalls
    /\ epsilon' = RMax(epsilonMin, RMin(<<1, 1>>, value))
    /\ egRet' = EpsilonCall("setEpsilon", Some(value), Some(epsilon), FALSE, Null)
    /\ UNCHANGED <<epsilonMin, epsilonDecay, basePolicy, epsilonConfig,
                   epsilonSteps, baseCalls>>

\* this.config.explorationRate ?? 0.1, where Policy's constructor stored
\* config.explorationRate ?? 0.1
ConfiguredExplorationRate == Nullish(epsilonConfig.explorationRate, DefaultEpsilon)

\* resetEpsilon()
ResetEpsilon ==
    /\ egRet.calls < MaxEpsilonCalls
    /\ epsilon' = ConfiguredExplorationRate
    /\ egRet' = EpsilonCall("resetEpsilon", Null, Some(epsilon), FALSE, Null)
    /\ UNCHANGED <<epsilonMin, epsilonDecay, basePolicy, epsilonConfig,
                   epsilonSteps, baseCalls>>

\* reset(): super.reset(), resetEpsilon(), basePolicy.reset()
EpsilonReset ==
    /\ egRet.calls < MaxEpsilonCalls
    /\ epsilonSteps' = 0
    /\ epsilon' = ConfiguredExplorationRate
    /\ baseCalls' =
          IF basePolicy # Null
          THEN Append(baseCalls, BaseCall("reset", Null, Null, Null))
          ELSE baseCalls
    /\ egRet' = EpsilonCall("reset", Null, Some(epsilon), FALSE, Null)
    /\ UNCHANGED <<epsilonMin, epsilonDecay, basePolicy, epsilonConfig>>

EpsilonNext ==
    \/ SetBasePolicy
    \/ \E state \in {<<"intent:", "billing">>}, draw \in Draws,
          pick \in ActionTypes : EpsilonSelectAction(state, draw, pick)
    \/ \E arguments \in UpdateArguments : EpsilonUpdate(arguments)
    \/ \E value \in EpsilonArguments : SetEpsilon(value)
    \/ ResetEpsilon
    \/ EpsilonReset

\* ------------------------------------------------------------- ActionSpace

\* The actions handed to the ActionSpace: two types, two actions of each.
SpaceActionValues ==
    [type : {<<"ask_question">>, <<"end_call">>}, name : {"first", "second"}]

\* Map.prototype.has
MapHas(entries, key) == \E n \in 1..Len(entries) : entries[n].key = key

\* Map.prototype.get: the value, or Null for undefined.
MapGet(entries, key) ==
    IF MapHas(entries, key)
    THEN Some(entries[CHOOSE n \in 1..Len(entries) : entries[n].key = key].value)
    ELSE Null

\* A set that keeps the old entry and adds another.
MapSetAppending(entries, key, value) ==
    Append(entries, [key |-> key, value |-> value])

\* Map.prototype.set: a present key keeps its place and takes the value,
\* a new key goes to the end.
MapSet(entries, key, value) ==
    IF MapHas(entries, key)
    THEN [n \in 1..Len(entries) |->
             IF entries[n].key = key THEN [key |-> key, value |-> value]
             ELSE entries[n]]
    ELSE Append(entries, [key |-> key, value |-> value])

\* Map.prototype.delete
MapDelete(entries, key) == SelectSeq(entries, LAMBDA e : e.key # key)

\* new Map(actions.map(a => [a.type, a]))
RECURSIVE MapOf(_)
MapOf(list) ==
    IF list = <<>> THEN <<>>
    ELSE LET last == list[Len(list)]
         IN  MapSet(MapOf(SubSeq(list, 1, Len(list) - 1)), last.type, last)

\* getAction(type)
GetAction(type) == MapGet(spaceActions, type)

\* getAllActions()
GetAllActions == [n \in 1..Len(spaceActions) |-> spaceActions[n].value]

\* size()
Size == Len(spaceActions)

\* The last action of a type in a list, or Null.
LastOfType(list, type) ==
    LET of == SelectSeq(list, LAMBDA a : a.type = type)
    IN  IF of = <<>> THEN Null ELSE Some(of[Len(of)])

\* new ActionSpace(list)
SpaceConstructed(list) ==
    /\ spaceActions = MapOf(list)
    /\ spaceAdded = Len(list)
    /\ spaceLatest = [t \in {<<"ask_question">>, <<"end_call">>} |->
                         LastOfType(list, t)]
    /\ spaceRet = [op |-> "none", calls |-> 0, action |-> Null,
                   sizeBefore |-> 0, present |-> FALSE]

\* The action arrays the constructor takes, duplicates of a type included.
SpaceLists ==
    {<<>>} \cup {<<a>> : a \in SpaceActionValues}
           \cup {<<a, b>> : a \in SpaceActionValues, b \in SpaceActionValues}

SpaceInit == \E list \in SpaceLists : SpaceConstructed(list)

\* An ActionSpace nobody calls.
SpaceIdle == SpaceConstructed(<<>>)

\* addAction(action)
AddAction(action) ==
    /\ spaceRet.calls < MaxSpaceCalls
    /\ spaceActions' = MapSet(spaceActions, action.type, action)
    /\ spaceAdded' = spaceAdded + 1
    /\ spaceLatest' = [spaceLatest EXCEPT ![action.type] = Some(action)]
    /\ spaceRet' = [op |-> "addAction", calls |-> spaceRet.calls + 1,
                    action |-> Some(action), sizeBefore |-> Size,
                    present |-> MapHas(spaceActions, action.type)]

\* removeAction(type)
RemoveAction(type) ==
    /\ spaceRet.calls < MaxSpaceCalls
    /\ spaceActions' = MapDelete(spaceActions, type)
    /\ spaceLatest' = [spaceLatest EXCEPT ![type] = Null]
    /\ spaceRet' = [op |-> "removeAction", calls |-> spaceRet.calls + 1,
                    action |-> Null, sizeBefore |-> Size,
                    present |-> MapHas(spaceActions, type)]
    /\ UNCHANGED spaceAdded

SpaceNext ==
    \/ \E action \in SpaceActionValues : AddAction(action)
    \/ \E type \in {<<"ask_question">>, <<"end_call">>} : RemoveAction(type)

\* ------------------------------------------ ContextualBandit (Map-based)

\* The (context, action) pairs of the armStats maps.
MapArms == Contexts \X ActionTypes

\* The ArmStats getArmStats inserts for a pair that has none.
MapDefaultStats ==
    [pulls |-> 0, totalReward |-> 0, averageReward |-> Rat(initialReward, 1)]

\* A getArmStats that starts every arm it is asked for afresh.
MapGetArmStatsAfresh(stats, context, actionType) ==
    [stats EXCEPT ![<<context, actionType>>] = MapDefaultStats]

\* getArmStats(context, actionType): the maps after the call, which inserts
\* the default statistics when the pair has none.
MapGetArmStats(stats, context, actionType) ==
    IF stats[<<context, actionType>>] = Null
    THEN [stats EXCEPT ![<<context, actionType>>] = MapDefaultStats]
    ELSE stats

\* The sum of pulls over the context's map.
RECURSIVE MapTotalPulls(_, _, _)
MapTotalPulls(stats, context, types) ==
    IF types = {} THEN 0
    ELSE LET t == CHOOSE x \in types : TRUE
             own == IF stats[<<context, t>>] = Null THEN 0
                    ELSE stats[<<context, t>>].pulls
         IN  own + MapTotalPulls(stats, context, types \ {t})

\* getActionValue(context, actionType), after its getArmStats.
MapActionValue(stats, context, actionType) ==
    LET arm == stats[<<context, actionType>>]
        total == MapTotalPulls(stats, context, ActionTypes)
    IN  IF arm.pulls = 0 THEN Rat(initialReward, 1)
        ELSE IF useUCB
             THEN IF total = 0 THEN Rat(initialReward, 1)
                  ELSE RAdd(arm.averageReward,
                            Rat(confidenceBonus * SqrtLogMilli(total, arm.pulls),
                                1000))
             ELSE arm.averageReward

\* The loop of selectBestAction over the first n actions: the maps after
\* the getArmStats calls and the values found.
RECURSIVE MapScan(_, _, _)
MapScan(stats, context, n) ==
    IF n = 0 THEN [stats |-> stats, values |-> <<>>]
    ELSE LET before == MapScan(stats, context, n - 1)
             after == MapGetArmStats(before.stats, context, actionSpace[n])
         IN  [stats |-> after,
              values |-> Append(before.values,
                                MapActionValue(after, context, actionSpace[n]))]

MapCall(op, state, explored, result) ==
    [op |-> op, calls |-> mapRet.calls + 1, state |-> state,
     explored |-> explored, result |-> result]

\* new ContextualBandit(config)
MapInit ==
    /\ armStats = [k \in MapArms |-> Null]
    /\ mapSteps = 0
    /\ mapRet = [op |-> "none", calls |-> 0, state |-> Null,
                 explored |-> FALSE, result |-> Null]

\* selectAction(state): incrementStep, then a random action or the best one.
MapSelectAction(state, explore, pick) ==
    /\ mapRet.calls < MaxMapCalls
    /\ explore => exploring
    /\ pick \in 1..Len(actionSpace)
    /\ mapSteps' = mapSteps + 1
    /\ IF explore
       THEN /\ armStats' = armStats
            /\ mapRet' = MapCall("selectAction", Some(state), TRUE,
                                 Some(actionSpace[pick]))
       ELSE LET scan == MapScan(armStats, state.context, Len(actionSpace))
            IN  /\ pick = 1
                /\ armStats' = scan.stats
                /\ mapRet' = MapCall("selectAction", Some(state), FALSE,
                       Some(actionSpace[BestIndex(scan.values, Len(scan.values))]))

\* update(state, action, reward)
MapUpdate(context, actionType, reward) ==
    /\ mapRet.calls < MaxMapCalls
    /\ LET got == MapGetArmStats(armStats, context, actionType)
           arm == got[<<context, actionType>>]
       IN  armStats' = [got EXCEPT ![<<context, actionType>>] =
               [pulls |-> arm.pulls + 1,
                totalReward |-> arm.totalReward + reward,
                averageReward |-> Frac(arm.totalReward + reward, arm.pulls + 1)]]
    /\ mapRet' = MapCall("update", Null, FALSE, Null)
    /\ UNCHANGED mapSteps

\* reset()
MapReset ==
    /\ mapRet.calls < MaxMapCalls
    /\ armStats' = [k \in MapArms |-> Null]
    /\ mapSteps' = 0
    /\ mapRet' = MapCall("reset", Null, FALSE, Null)

MapNext ==
    \/ \E st \in SelectStates, e \in BOOLEAN, k \in 1..2 :
          MapSelectAction(st, e, k)
    \/ \E c \in Contexts, a \in ActionTypes, r \in RewardValues :
          MapUpdate(c, a, r)
    \/ MapReset

\* ----------------------------------------------------------- MemoryStorage

MemoryKeys == {"first", "second"}

\* What Map.get returns for a key without an entry.
Undefined == [kind |-> "undefined"]

\* The values handed to set: falsy and truthy ones of each kind.
MemoryValues ==
    {NumberValue(0, 1), NumberValue(1, 1), StringValue(<<>>),
     StringValue(<<"x">>), BooleanValue(FALSE), BooleanValue(TRUE),
     ObjectValue}

\* JavaScript truthiness: undefined, 0, NaN, '' and false are falsy.
Truthy(v) ==
    CASE v.kind = "undefined" -> FALSE
      [] v.kind = "number" -> ~IsNaN(v.number) /\ v.number[1] # 0
      [] v.kind = "string" -> v.value # <<>>
      [] v.kind = "boolean" -> v.flag
      [] OTHER -> TRUE

\* this.store.get(key) || null
MemoryGet(m, key) == IF Truthy(m[key]) THEN m[key] ELSE Null

NoMemoryCall ==
    [op |-> "none", calls |-> 0, key |-> "", value |-> Null, result |-> Null]

MemoryCall(op, key, value, result) ==
    [op |-> op, calls |-> memRet.calls + 1, key |-> key, value |-> value,
     result |-> result]

\* The constructor: this.store = new Map()
MemoryInit ==
    /\ memStore = [k \in MemoryKeys |-> Undefined]
    /\ memRet = NoMemoryCall

\* get(key)
StorageGetCall(key) ==
    /\ memRet.calls < MaxStorageCalls
    /\ memRet' = MemoryCall("get", key, Null, MemoryGet(memStore, key))
    /\ UNCHANGED memStore

\* set(key, value)
StorageSetCall(key, value) ==
    /\ memRet.calls < MaxStorageCalls
    /\ memStore' = [memStore EXCEPT ![key] = value]
    /\ memRet' = MemoryCall("set", key, value, Null)

\* delete(key)
StorageDeleteCall(key) ==
    /\ memRet.calls < MaxStorageCalls
    /\ memStore' = [memStore EXCEPT ![key] = Undefined]
    /\ memRet' = MemoryCall("delete", key, Null, Null)

\* clear()
StorageClearCall ==
    /\ memRet.calls < MaxStorageCalls
    /\ memStore' = [k \in MemoryKeys |-> Undefined]
    /\ memRet' = MemoryCall("clear", "", Null, Null)

MemoryNext ==
    \/ \E k \in MemoryKeys : StorageGetCall(k)
    \/ \E k \in MemoryKeys, v \in MemoryValues : StorageSetCall(k, v)
    \/ \E k \in MemoryKeys : StorageDeleteCall(k)
    \/ StorageClearCall

\* ----------------------------------------------------------------- Monitor

\* config.maxLogEntries ?? 10000
DefaultMaxLogEntries == 10000

\* serializeState: histories longer than this are cut ...
LoggedHistoryLimit == 10

\* ... to this many turns of the start and as many of the end.
LoggedHistoryEnds == 5

\* A history of n turns, each told apart by its place.
HistoryOf(n) == [i \in 1..n |-> Turn("user", i)]

\* Lengths of the histories of the states logged: none, at the limit and past it.
LoggedHistoryLengths ==
    {0, LoggedHistoryLimit, LoggedHistoryLimit + 1, LoggedHistoryLimit + 2}

\* The State objects handed to log.
LoggedStates ==
    {NewState([conversationId |-> ConversationId, turnNumber |-> n,
               history |-> HistoryOf(n)]) : n \in LoggedHistoryLengths}

\* The MonitorConfig objects the Monitor is built with.
MonitorConfigs ==
    [enableLogging : {Null, Some(FALSE)},
     maxLogEntries : {Null, Some(0), Some(1), Some(2)}]

\* Array.prototype.slice(start): from start, counted from the end when negative.
Slice(seq, start) ==
    LET from == IF start < 0 THEN Larger(Len(seq) + start, 0)
                ELSE IF start > Len(seq) THEN Len(seq) ELSE start
    IN  SubSeq(seq, from + 1, Len(seq))

\* Array.prototype.slice(0, end)
SliceTo(seq, end) == SubSeq(seq, 1, IF end > Len(seq) THEN Len(seq) ELSE end)

\* The history serializeState leaves in the data object.
LoggedHistory(history) ==
    IF Len(history) > LoggedHistoryLimit
    THEN SliceTo(history, LoggedHistoryEnds) \o Slice(history, -LoggedHistoryEnds)
    ELSE history

\* serializeState(state): state.toJSON() is state.data itself, and the
\* shortened history is assigned to that object.
SerializeState(state) ==
    [state.data EXCEPT !.history = LoggedHistory(state.data.history)]

NoMonitorCall ==
    [op |-> "none", calls |-> 0, before |-> Null, given |-> Null]

MonitorIdle ==
    /\ monConfig = [enableLogging |-> TRUE, maxLogEntries |-> DefaultMaxLogEntries]
    /\ monLogs = <<>>
    /\ monStats = Null
    /\ monRet = NoMonitorCall

\* The constructor.
MonitorInit ==
    /\ \E config \in MonitorConfigs :
          monConfig = [enableLogging |-> Nullish(config.enableLogging, TRUE),
                       maxLogEntries |-> Nullish(config.maxLogEntries,
                                                 DefaultMaxLogEntries)]
    /\ monLogs = <<>>
    /\ monStats = Null
    /\ monRet = NoMonitorCall

\* this.logs after the push and the trim.
Trimmed(logs) ==
    IF Len(logs) > monConfig.maxLogEntries
    THEN Slice(logs, -monConfig.maxLogEntries)
    ELSE logs

\* updateConversationStats(state, action, reward)
UpdatedConversationStats(stats, action, reward) ==
    LET present == IF stats = Null
                   THEN [turnCount |-> 0, actions |-> <<>>, rewards |-> <<>>]
                   ELSE stats
    IN  [turnCount |-> present.turnCount + 1,
         actions |-> Append(present.actions, action.type),
         rewards |-> IF reward # Null THEN Append(present.rewards, reward.value)
                     ELSE present.rewards]

\* log(state, action, reward): `given` is the caller's State object after
\* the call, `before` its data when the call began.
MonitorLog(state, action, reward) ==
    /\ monRet.calls < MaxLogCalls
    /\ IF ~monConfig.enableLogging
       THEN /\ monRet' = [op |-> "log", calls |-> monRet.calls + 1,
                          before |-> Some(state.data), given |-> Some(state)]
            /\ UNCHANGED <<monLogs, monStats>>
       ELSE LET data == SerializeState(state)
                entry == [conversationId |-> state.data.conversationId,
                          turnNumber |-> state.data.turnNumber,
                          state |-> data, action |-> action, reward |-> reward]
            IN  /\ monLogs' = Trimmed(Append(monLogs, entry))
                /\ monStats' = UpdatedConversationStats(monStats, action, reward)
                /\ monRet' = [op |-> "log", calls |-> monRet.calls + 1,
                              before |-> Some(state.data),
                              given |-> Some(NewState(data))]
    /\ UNCHANGED monConfig

\* clearLogs()
ClearLogs ==
    /\ monRet.calls < MaxLogCalls
    /\ monLogs' = <<>>
    /\ monRet' = [NoMonitorCall EXCEPT !.op = "clearLogs",
                                       !.calls = monRet.calls + 1]
    /\ UNCHANGED <<monConfig, monStats>>

MonitorNext ==
    \/ \E st \in LoggedStates, a \in EnvActions, r \in {Null, Some(1)} :
          MonitorLog(st, a, r)
    \/ ClearLogs

\* ----------------------------------- callers of the storage-backed bandit

\* The context and action every step of the episode shares.
EpisodeContext == <<"intent:", "billing">>

EpisodeAction == <<"ask_question">>

\* Episode lengths.
EpisodeLengths == {1, 2}

\* The rewards handed to update: the ends of the range combine clamps to.
EpisodeRewards == {-1, 1}

NoRun ==
    [pc |-> "idle", policy |-> "none", n |-> 0, left |-> 0, waiting |-> 0,
     issued |-> {}]

CallerInit ==
    /\ via = [i \in CallIds |-> "none"]
    /\ settled = [i \in CallIds |-> "none"]
    /\ run = NoRun

\* The arguments EpsilonGreedy.update passes on.
Forwarded(context, actionType, reward) ==
    [state |-> context, action |-> actionType, reward |-> <<reward, 1>>]

\* await bandit.update(state, action, reward) by a caller of its own: the
\* call runs to its first storage read.
DirectUpdate(i, context, actionType, reward) ==
    /\ run.pc = "idle"
    /\ UpdateStart(i, context, actionType, reward)
    /\ via' = [via EXCEPT ![i] = "direct"]
    /\ settled' = [settled EXCEPT ![i] = "pending"]
    /\ UNCHANGED <<run, epsilonVars>>

\* await epsilonGreedy.update(state, action, reward) with the bandit as base
\* policy: update decays epsilon, calls this.basePolicy.update(...) and
\* returns undefined, so the caller's await resolves while the bandit's
\* update is at its first storage read.
WrappedUpdate(i, context, actionType, reward) ==
    /\ run.pc = "idle"
    /\ basePolicy # Null
    /\ EpsilonUpdate(Forwarded(context, actionType, reward))
    /\ UpdateStart(i, context, actionType, reward)
    /\ via' = [via EXCEPT ![i] = "epsilon"]
    /\ settled' = [settled EXCEPT ![i] = "resolved"]
    /\ UNCHANGED run

\* The bandit's update goes on after a storage operation resolved.
UpdateGoesOn(i) ==
    /\ UpdateSave(i) \/ UpdateCtxGet(i)
    /\ UNCHANGED <<callerVars, epsilonVars>>

\* What the maker of call i sees when the call settles as outcome.
Settle(i, outcome) ==
    IF via[i] \in {"epsilon", "outcomeEpsilon"} THEN settled
    ELSE [settled EXCEPT ![i] = outcome]

\* The bandit's update resolves; a processOutcome awaiting it goes on.
UpdateResolves(i) ==
    /\ UpdateCtxSet(i)
    /\ settled' = Settle(i, "resolved")
    /\ run' = IF run.waiting = i
              THEN [run EXCEPT !.waiting = 0, !.left = @ - 1] ELSE run
    /\ UNCHANGED <<via, epsilonVars>>

\* The storage operation call i is awaiting rejects: nothing in update or
\* its helpers catches, so the call rejects there, and a processOutcome
\* awaiting it rejects with it.
StorageRejects(i) ==
    /\ calls[i].pc \in {"getArm", "saved", "ctxGot"}
    /\ calls' = [calls EXCEPT ![i] = [DoneCall(@) EXCEPT !.pc = "failed"]]
    /\ heap' = Collect(heap, store, calls')
    /\ settled' = Settle(i, "rejected")
    /\ run' = IF run.waiting = i
              THEN [run EXCEPT !.waiting = 0, !.pc = "rejected"] ELSE run
    /\ UNCHANGED <<store, nCalls, initialReward, stepCount, hist, serial, lost,
                   via, epsilonVars>>

\* environment.processOutcome(outcome) after an n-step episode, with the
\* bandit or the EpsilonGreedy around it as the Environment's policy.
RunStart(kind, n) ==
    /\ run.pc = "idle"
    /\ nCalls = 0
    /\ kind = "epsilon" => basePolicy # Null
    /\ run' = [NoRun EXCEPT !.pc = "loop", !.policy = kind, !.n = n, !.left = n]
    /\ UNCHANGED <<banditVars, via, settled, epsilonVars>>

\* One turn of the loop: await this.policy.update(state, action, totalReward).
RunIssue(i, reward) ==
    /\ run.pc = "loop"
    /\ run.waiting = 0
    /\ run.left > 0
    /\ UpdateStart(i, EpisodeContext, EpisodeAction, reward)
    /\ IF run.policy = "bandit"
       THEN /\ via' = [via EXCEPT ![i] = "outcome"]
            /\ settled' = [settled EXCEPT ![i] = "pending"]
            /\ run' = [run EXCEPT !.waiting = i, !.issued = @ \cup {i}]
            /\ UNCHANGED epsilonVars
       ELSE /\ EpsilonUpdate(Forwarded(EpisodeContext, EpisodeAction, reward))
            /\ via' = [via EXCEPT ![i] = "outcomeEpsilon"]
            /\ settled' = [settled EXCEPT ![i] = "resolved"]
            /\ run' = [run EXCEPT !.left = @ - 1, !.issued = @ \cup {i}]

\* The loop is over: processOutcome resolves.
RunResolves ==
    /\ run.pc = "loop"
    /\ run.waiting = 0
    /\ run.left = 0
    /\ run' = [run EXCEPT !.pc = "resolved"]
    /\ UNCHANGED <<banditVars, via, settled, epsilonVars>>

CallerNext ==
    \/ \E i \in CallIds, r \in EpisodeRewards :
          DirectUpdate(i, EpisodeContext, EpisodeAction, r)
    \/ \E i \in CallIds, r \in EpisodeRewards :
          WrappedUpdate(i, EpisodeContext, EpisodeAction, r)
    \/ \E i \in CallIds : UpdateGoesOn(i)
    \/ \E i \in CallIds : UpdateResolves(i)
    \/ \E i \in CallIds : StorageRejects(i)
    \/ \E kind \in {"bandit", "epsilon"}, n \in EpisodeLengths : RunStart(kind, n)
    \/ \E i \in CallIds, r \in EpisodeRewards : RunIssue(i, r)
    \/ RunResolves

\* ------------------------------------------------- claims: ContextualBandit

\* A step of update() i that writes the arm statistics (saveArmStats).
SaveStep(i) == calls[i].pc = "getArm" /\ calls'[i].pc = "saved"

\* A step of reset().
ResetStep == calls' = calls /\ store' = StorageClear /\ stepCount' = 0

\* C1: after n updates of one arm run one at a time (each resolved before
\* the next began) from no stored statistics, with rewards r1..rn, the arm
\* holds pulls = n, totalReward = r1+...+rn and averageReward = their
\* quotient; initialReward is no part of it.
C1_RunningMean ==
    \A k \in ArmKeys :
        (serial[k] /\ InFlight(k) = {}) =>
            IF hist[k].completed = 0
            THEN store[k] = Null
            ELSE StoredStats(k) =
                    [pulls |-> hist[k].completed,
                     totalReward |-> hist[k].sum,
                     averageReward |-> Frac(hist[k].sum, hist[k].completed)]

C1_Witness ==
    \E k \in ArmKeys :
        /\ serial[k] /\ InFlight(k) = {}
        /\ hist[k].completed = 2
        /\ initialReward # 0
        /\ StoredStats(k).averageReward = <<1, 2>>

\* C2: an update that read no statistics for its arm and writes after
\* another update has written them stores only its own value (pulls 1, its
\* own reward): the earlier write is replaced, not added to.
C2_LaterWriteWins ==
    [][\A j \in CallIds :
          (SaveStep(j) /\ calls[j].got = Null /\ store[calls[j].key] # Null) =>
              /\ StoredPulls(calls[j].key) >= 1
              /\ StoredStats(calls[j].key)' =
                    UpdatedStats(DefaultStats, calls[j].reward)
              /\ StoredPulls(calls[j].key)' = 1]_vars

\* Two updates of one arm were issued, both have resolved, no reset came
\* between, and the arm holds one pull.
C2_Witness ==
    \E k \in ArmKeys :
        /\ nCalls = 2
        /\ \A i \in 1..2 : calls[i].pc = "done" /\ calls[i].key = k
        /\ lost[k]
        /\ StoredPulls(k) = 1

AverageInvariant ==
    \A k \in ArmKeys :
        (store[k] # Null /\ StoredPulls(k) > 0) =>
            StoredStats(k).averageReward =
                Frac(StoredStats(k).totalReward, StoredStats(k).pulls)

\* C3, as claimed: the average is the quotient in every state, and only a
\* reset lowers the stored pulls of an arm.
C3_PullsOnlyIncrease ==
    /\ []AverageInvariant
    /\ [][ResetStep \/ \A k \in ArmKeys : StoredPulls(k)' >= StoredPulls(k)]_vars

\* C3, amended: the average is the quotient in every state; the stored pulls
\* of an arm drop only in a reset or in the write of an update whose arm was
\* written (or cleared) by someone else after the update read it.
C3_PullsDropOnlyByStaleWrite ==
    /\ []AverageInvariant
    /\ [][\A k \in ArmKeys :
            StoredPulls(k)' < StoredPulls(k) =>
                \/ ResetStep
                \/ \E j \in CallIds :
                      /\ SaveStep(j)
                      /\ calls[j].key = k
                      /\ calls[j].got # store[k]]_vars

C3_Witness ==
    \E k \in ArmKeys :
        /\ lost[k]
        /\ InFlight(k) = {}
        /\ StoredPulls(k) = 2
        /\ StoredStats(k).averageReward = <<1, 2>>

\* The arm keys of a context.
ContextArms(context) == {getStorageKey(context, a) : a \in ActionTypes}

\* The per-context total-pulls counter (0 when nothing is stored).
ContextTotal(context) ==
    LET data == store[getContextKey(context)]
    IN  IF data = Null THEN 0 ELSE data.totalPulls

\* The sum of the stored pulls of the arms.
RECURSIVE SumPulls(_)
SumPulls(keys) ==
    IF keys = {} THEN 0
    ELSE LET k == CHOOSE x \in keys : TRUE
         IN  StoredPulls(k) + SumPulls(keys \ {k})

\* The updates of the context have run one at a time since the last reset.
OneAtATime(context) == \A k \in ContextArms(context) : serial[k]

Exploited == sel.pc = "done" /\ ~sel.explored

\* C14: on the exploit branch, every arm whose statistics are absent or
\* have pulls = 0 is valued at exactly initialReward, with UCB and without,
\* whatever the context's total-pulls counter holds.
C14_ColdStartValue ==
    Exploited =>
        \A n \in 1..Len(actionSpace) :
            sel.seen[n].pulls = 0 => sel.values[n] = <<initialReward, 1>>

\* Under UCB with initialReward 3, one arm has pulls and a counter above 0
\* and the other, unpulled, is valued at 3.
C14_Witness ==
    /\ Exploited
    /\ useUCB
    /\ initialReward = 3
    /\ StorageGet(getContextKey(sel.state.context)) # Null
    /\ \E n, m \in 1..Len(actionSpace) :
          /\ sel.seen[n].pulls = 0
          /\ sel.values[n] = <<3, 1>>
          /\ sel.seen[m].pulls > 0

\* C15: on the exploit branch selectAction returns an action of the space
\* whose value is the largest of all, and among several largest the one that
\* comes first in the action space.
C15_FirstMaximum ==
    Exploited =>
        \E k \in 1..Len(actionSpace) :
            /\ sel.result = actionSpace[k]
            /\ \A m \in 1..Len(actionSpace) : ~RLess(sel.values[k], sel.values[m])
            /\ \A m \in 1..(k - 1) : RLess(sel.values[m], sel.values[k])

\* Two arms of equal value, one of them pulled: the first of the space wins.
C15_Witness ==
    /\ Exploited
    /\ sel.values[1] = sel.values[2]
    /\ sel.seen[2].pulls > 0
    /\ sel.result = actionSpace[1]

\* The value of arm n less its repetition penalty.
Penalized(n) ==
    RSub(sel.values[n],
         <<GetRepetitionPenalty(actionSpace[n], sel.state), 1>>)

\* C16: on the exploit branch the actions are ranked by their estimate
\* minus the repetition penalty: the action returned is the first whose
\* penalized value is the largest.
C16_PenalizedRanking ==
    Exploited =>
        \E k \in 1..Len(actionSpace) :
            /\ sel.result = actionSpace[k]
            /\ \A m \in 1..Len(actionSpace) : ~RLess(Penalized(k), Penalized(m))
            /\ \A m \in 1..(k - 1) : RLess(Penalized(m), Penalized(k))

\* A step that is a call of analyzeAction.
AnalyzeStep == fnCall'.op = "analyzeAction" /\ fnCall' # fnCall

\* The arms hold what the last selectAction read from them.
ArmsAsSelected ==
    \A n \in 1..Len(actionSpace) :
        sel.seen[n] = StatsOf(StorageGet(getStorageKey(sel.state.context,
                                                       actionSpace[n])))

C22_RoundTripSelectsSame ==
    (Exploited /\ sel.quiet) =>
        sel.result = BanditChoice(FromJSON(FreshBandit, ToJSON), sel.state)

\* A step that is a call of the Map-based selectAction.
MapSelectStep == mapRet'.calls = mapRet.calls + 1 /\ mapRet'.op = "selectAction"

\* Arm statistics come into existence through update alone and go through
\* reset alone.
ArmsBornByUpdate ==
    \A k \in MapArms :
        /\ (armStats[k] = Null /\ armStats'[k] # Null) => mapRet'.op = "update"
        /\ (armStats[k] # Null /\ armStats'[k] = Null) => mapRet'.op = "reset"

C17_LearnedArmWins ==
    ( /\ actionSpace = <<<<"ask_question">>, <<"end_call">>>>
      /\ initialReward = 0
      /\ confidenceBonus = 2
      /\ useUCB
      /\ ~exploring
      /\ Exploited
      /\ sel.quiet
      /\ nCalls = 1
      /\ calls[1].pc = "done"
      /\ calls[1].key = getStorageKey(sel.state.context, <<"ask_question">>)
      /\ hist[calls[1].key].completed = 1
      /\ hist[calls[1].key].sum > 0 )
    => sel.result = <<"ask_question">>

\* The scenario, with the single update seen by the call: the pulled arm is
\* valued at its average 2 (the UCB bonus is 0 at one total pull).
C17_Witness ==
    /\ actionSpace = <<<<"ask_question">>, <<"end_call">>>>
    /\ initialReward = 0
    /\ useUCB
    /\ Exploited
    /\ sel.quiet
    /\ nCalls = 1
    /\ calls[1].pc = "done"
    /\ hist[calls[1].key] = [completed |-> 1, sum |-> 2]
    /\ sel.seen[1].pulls = 1
    /\ sel.values = <<<<2, 1>>, <<0, 1>>>>
    /\ sel.result = <<"ask_question">>

\* ------------------------------------------------------- claims: Guardrails

\* A step of validate; ret' holds its arguments and what it returned.
ValidateStep == ret'.op = "validate"

IsError(value) == "error" \in DOMAIN value

\* The whitelist or blacklist rejects the action.
ListRejects(action) ==
    \/ (whitelist # <<>> /\ \A n \in 1..Len(whitelist) : whitelist[n] # action.type)
    \/ \E n \in 1..Len(blacklist) : blacklist[n] = action.type

\* Rule n's check returns true when called on (state, action) now.
Fires(n, state, action) ==
    CheckRule(rules[n], CountsOf(counts, rules[n]), state, action).viol

\* The first blocking rule, in registration order, whose check returns true
\* (0 when there is none).
FirstBlocking(state, action) ==
    LET hits == {n \in 1..Len(rules) : rules[n].blocking /\ Fires(n, state, action)}
    IN  IF hits = {} THEN 0 ELSE CHOOSE n \in hits : \A m \in hits : n <= m

\* validate meets a violation: a list rejects the action or a blocking rule fires.
Detects(state, action) ==
    ListRejects(action) \/ FirstBlocking(state, action) # 0

\* The name validate records for the violation it meets first.
DetectedName(state, action) ==
    IF whitelist # <<>> /\ \A n \in 1..Len(whitelist) : whitelist[n] # action.type
    THEN <<"whitelist">>
    ELSE IF ListRejects(action) THEN <<"blacklist">>
    ELSE rules[FirstBlocking(state, action)].name

\* The rule-specific fallback of the violation validate meets first.
DetectedFallback(state, action) ==
    IF ListRejects(action) THEN Null
    ELSE rules[FirstBlocking(state, action)].fallbackAction

\* C4, as claimed: the action violates some blocking rule that has its own
\* fallbackAction, a defaultFallback and a fallbackPolicy are configured:
\* validate returns that rule's fallbackAction and does not ask the policy.
C4_RuleFallbackWhenRuleViolated ==
    [][ValidateStep =>
        \A n \in 1..Len(rules) :
            ( /\ rules[n].blocking
              /\ rules[n].fallbackAction # Null
              /\ Fires(n, ret'.state, ret'.action)
              /\ defaultFallback # Null
              /\ fallbackPolicy # Null )
            => (ret'.value = rules[n].fallbackAction /\ ret'.policyCalls = 0)]_vars

\* C4, amended: the same when that rule is the first violation validate
\* meets, that is, the action passes the whitelist and the blacklist and no
\* blocking rule registered earlier fires.
C4_RuleFallbackWhenFirstViolation ==
    [][ValidateStep =>
        \A n \in 1..Len(rules) :
            ( /\ rules[n].blocking
              /\ rules[n].fallbackAction # Null
              /\ ~ListRejects(ret'.action)
              /\ FirstBlocking(ret'.state, ret'.action) = n
              /\ defaultFallback # Null
              /\ fallbackPolicy # Null )
            => (ret'.value = rules[n].fallbackAction /\ ret'.policyCalls = 0)]_vars

C4_Witness ==
    /\ ret.op = "validate"
    /\ ret.blockedBy = MaxTurnsRule.name
    /\ defaultFallback # Null
    /\ fallbackPolicy # Null
    /\ ret.value = MaxTurnsRule.fallbackAction
    /\ ret.policyCalls = 0

\* C5: a violation with no rule-specific fallback and no defaultFallback,
\* but with a fallbackPolicy: validate returns what the policy's
\* selectAction produced, for every policy, and not the proposed action.
C5_PolicyActionReturned ==
    [][( /\ ValidateStep
         /\ Detects(ret'.state, ret'.action)
         /\ DetectedFallback(ret'.state, ret'.action) = Null
         /\ defaultFallback = Null
         /\ fallbackPolicy # Null )
        => ( /\ ret'.policyCalls = 1
             /\ ret'.value = ret'.policyResult
             /\ ret'.value # ret'.action )]_vars

\* C6: validate throws 'No fallback available' exactly when it meets a
\* violation for which neither a rule-specific fallback nor a defaultFallback
\* nor a fallbackPolicy exists; it then returns no action, and the violation
\* is the last entry of the (otherwise unchanged) violation record.
C6_NoFallbackError ==
    [][ValidateStep =>
        LET st == ret'.state
            a == ret'.action
        IN  /\ IsError(ret'.value) <=>
                  ( /\ Detects(st, a)
                    /\ DetectedFallback(st, a) = Null
                    /\ defaultFallback = Null
                    /\ fallbackPolicy = Null )
            /\ IsError(ret'.value) =>
                  /\ ret'.value.error = "No fallback available"
                  /\ Len(violations') = Len(violations) + 1
                  /\ SubSeq(violations', 1, Len(violations)) = violations
                  /\ violations'[Len(violations')] =
                        ViolationEntry(st, a, DetectedName(st, a), TRUE)]_vars

C6_Witness ==
    /\ ret.op = "validate"
    /\ IsError(ret.value)
    /\ ret.value.rule = NoRepeatRule.name
    /\ violations # <<>>
    /\ violations[Len(violations)].rule = NoRepeatRule.name

\* C7: with a non-empty whitelist, isSafe answers false for every action
\* whose type is not in it, whatever the blacklist and the rules say.
C7_WhitelistExclusive ==
    (ret.op = "isSafe" /\ whitelist # <<>>
        /\ \A n \in 1..Len(whitelist) : whitelist[n] # ret.action.type)
    => ret.value = FALSE

\* A whitelist that allowAction made non-empty rejects an action that the
\* blacklist and the rules accept.
C7_Witness ==
    /\ ret.op = "isSafe"
    /\ whitelist = <<AskQuestion>>
    /\ ret.action.type = EndCall
    /\ blacklist = <<>>
    /\ rules = <<>>
    /\ ret.value = FALSE

\* C8: isSafe is read-only: a call changes neither the violation record nor
\* the state the rule checks read.
C8_IsSafeReadOnly ==
    [][ret'.op = "isSafe" => (violations' = violations /\ counts' = counts)]_vars

\* C9: in validate, a non-blocking rule whose check returns true leaves the
\* returned action alone and is recorded in the violation record, whatever
\* logViolations is.
C9_NonBlockingRecorded ==
    [][ValidateStep =>
        LET st == ret'.state
            a == ret'.action
            fb == FirstBlocking(st, a)
        IN  ~ListRejects(a) =>
              /\ fb = 0 => ret'.value = a
              /\ \A n \in 1..Len(rules) :
                    (~rules[n].blocking /\ Fires(n, st, a) /\ (fb = 0 \/ n < fb))
                    => \E m \in (Len(violations) + 1)..Len(violations') :
                          violations'[m] =
                              ViolationEntry(st, a, rules[n].name, FALSE)]_vars

\* C29: the action validate returns passes the guardrail's own list checks:
\* whenever validate returns rather than raises, the returned action's type
\* is in the whitelist if the whitelist is not empty, and is not in the
\* blacklist, for every combination of rule fallbacks, defaultFallback and
\* fallbackPolicy.
C29_ReturnedActionPassesLists ==
    (ret.op = "validate" /\ ~IsError(ret.value)) => ~ListRejects(ret.value)

\* ------------------------------------------------------ claims: Environment

\* A step of step(); envRet' holds its arguments and its result.
StepCall == envRet'.op = "step"

\* The failed call changes neither the episode history nor the current state.
StepLeavesAlone ==
    conversationHistory' = conversationHistory /\ currentState' = currentState

C11_DoneExactly ==
    [][(StepCall /\ ~envRet'.threw) =>
        /\ envRet'.nextState = currentState'
        /\ envRet'.done <=>
              \/ envRet'.action.type = <<"end_call">>
              \/ currentState'.data.turnNumber >= maxTurns]_vars

\* An ask_question step that reaches the turn limit ends the episode.
C11_Witness ==
    /\ envRet.op = "step"
    /\ ~envRet.threw
    /\ envRet.action.type = AskQuestion
    /\ currentState.data.turnNumber = maxTurns
    /\ envRet.done

\* A step() call that returned, on an Environment that was reset.
StepAfterReset ==
    StepCall /\ ~envRet'.threw /\ envRet' # envRet /\ resetCalled

\* The episode history grows by the entry (prior state, action, immediate
\* reward): the entries before it, the prior State and the States stored in
\* them are as they were.
StepAppendsEntry ==
    /\ conversationHistory' =
          Append(conversationHistory,
                 [state |-> currentState, action |-> envRet'.action,
                  reward |-> envRet'.reward])
    /\ envRet'.reward = CalculateImmediate(currentState.data)
    /\ envRet'.nextState = currentState'
    /\ currentState'.data.turnNumber = currentState.data.turnNumber + 1

\* The agent turn of the action and the user turn of the response.
StepAgentTurn == Turn("agent", envRet'.action.name)

StepUserTurn == Turn("user", envRet'.userResponse.text)

C33_TerminalAbsorbing ==
    [][( /\ envRet.op = "step"
         /\ ~envRet.threw
         /\ envRet.done
         /\ StepCall
         /\ envRet' # envRet )
        => (envRet'.threw \/ envRet'.done)]_vars

\* The Policy.update calls issued by the processOutcome call so far.
Issued == SubSeq(updates, po.first + 1, Len(updates))

\* clamp(immediateWeight * immediate + delayedWeight * delayed *
\* discountFactor^(n - 1 - i)) for the recorded step at index (index = i + 1).
CreditedReward(index) ==
    LET n == Len(conversationHistory)
        immediate == Rat(conversationHistory[index].reward, RewardUnit)
        discounted == RMul(po.delayed, RPow(rewardConfig.discountFactor, n - index))
    IN  RNormalize(RAdd(RMul(rewardConfig.immediateWeight, immediate),
                        RMul(rewardConfig.delayedWeight, discounted)))

\* The processOutcome call walks a history of n steps that nobody changes
\* under it: the calls issued so far are those of the steps n-1 down to i.
CreditedBackward ==
    (policy # Null /\ po.pc # "idle" /\ po.clean) =>
        LET n == Len(conversationHistory)
        IN  /\ ~po.threw
            /\ Len(Issued) = IF po.pc = "done" THEN n ELSE n - po.index + 1
            /\ \A m \in 1..Len(Issued) :
                  LET index == n - m + 1
                  IN  /\ Issued[m].state = conversationHistory[index].state
                      /\ Issued[m].action = conversationHistory[index].action
                      /\ Issued[m].reward = CreditedReward(index)

\* C12: with a policy set, processOutcome on an episode history of n steps
\* calls Policy.update once per step, from the last step down to the first,
\* one call per resumption (the next call is issued only after the awaited
\* one resolved), each with the step's recorded state and action and the
\* reward clamp(immediateWeight * immediate_i + delayedWeight * delayed *
\* discountFactor^(n-1-i)).
C12_CreditBackward ==
    /\ []CreditedBackward
    /\ [][updates' # updates =>
            /\ Len(updates') = Len(updates) + 1
            /\ po'.pc = "awaiting"
            /\ po.pc = "awaiting" => po'.index = po.index - 1]_vars

\* A two-step episode credited in full; the discount and the immediate
\* reward both show in the rewards.
C12_Witness ==
    /\ policy # Null
    /\ po.pc = "done"
    /\ po.clean
    /\ Len(conversationHistory) = 2
    /\ Len(Issued) = 2
    /\ conversationHistory[1].reward # 0
    /\ Issued[1].reward # Issued[2].reward
    /\ rewardConfig = DefaultRewardConfig

\* A step that begins a processOutcome call.
OutcomeCall == po'.calls = po.calls + 1

\* C32: each recorded step of an episode is credited to the policy at most
\* once: a processOutcome call that follows another with no reset and no
\* step in between issues no further Policy.update calls.
C32_CreditedAtMostOnce ==
    /\ [][(OutcomeCall /\ Repeats(po)) => updates' = updates]_vars
    /\ [](po.again => Issued = <<>>)

\* The state and action of each Policy.update call.
RECURSIVE Credited(_)
Credited(issued) ==
    IF issued = <<>> THEN <<>>
    ELSE <<[state |-> issued[1].state, action |-> issued[1].action]>>
             \o Credited(Tail(issued))

\* C32, amended: every processOutcome call credits each recorded step once,
\* whether or not an earlier call has credited it: a call that follows
\* another with no reset and no step in between issues, for the same states
\* and actions in the same order, the Policy.update calls of that call again.
C32_CreditedOncePerCall ==
    (policy # Null /\ po.again /\ po.pc = "done" /\ po.clean) =>
        LET n == Len(conversationHistory)
            last == Len(updates)
        IN  /\ Len(Issued) = n
            /\ po.first >= n
            /\ Credited(Issued) =
                  Credited(SubSeq(updates, po.first - n + 1, po.first))

\* A two-step episode credited twice over.
C32_Witness ==
    /\ policy # Null
    /\ po.again
    /\ po.pc = "done"
    /\ po.clean
    /\ Len(conversationHistory) = 2
    /\ Len(updates) = 4

\* ------------------------------------------------------------ claims: State

InUnitInterval(x) == ~IsNaN(x) /\ ~RLess(x, <<-1, 1>>) /\ ~RLess(<<1, 1>>, x)

\* C18: whatever the inputs, the values of calculateImmediate and
\* calculateDelayed and the result of combine (any list of signals, any
\* weights) lie in the closed interval [-1, 1].
C18_RewardBounds ==
    fnCall.op \in {"calculateImmediate", "calculateDelayed", "combine"}
        => InUnitInterval(fnResult.value)

\* C19: calculateDelayed returns clamp(base + sat + goal - dur), where base is
\* +1 on success and -1 otherwise, sat is (userSatisfaction - 0.5) * 0.5
\* whenever userSatisfaction is present (the value 0 included) and 0 when it
\* is absent, goal is 0.5 if goalAchieved and dur is 0.2 if duration > 600.
C19_DelayedFormula ==
    fnCall.op = "calculateDelayed" =>
        LET outcome == fnCall.outcome
            base == IF outcome.success THEN <<1, 1>> ELSE <<-1, 1>>
            sat  == IF outcome.userSatisfaction # Null
                    THEN RMul(RSub(outcome.userSatisfaction.value, <<1, 2>>),
                              <<1, 2>>)
                    ELSE <<0, 1>>
            goal == IF outcome.goalAchieved = Some(TRUE) THEN <<1, 2>>
                    ELSE <<0, 1>>
            dur  == IF outcome.duration # Null
                       /\ RLess(<<600, 1>>, outcome.duration.value)
                    THEN <<1, 5>> ELSE <<0, 1>>
        IN  fnResult.value = RNormalize(RSub(RAdd(RAdd(base, sat), goal), dur))

\* ---------------------------------------------------- claims: EpsilonGreedy

\* A step that is a call of EpsilonGreedy.update.
EpsilonUpdateStep == egRet'.calls = egRet.calls + 1 /\ egRet'.op = "update"

\* The call update forwards to the base policy.
ForwardedUpdate ==
    BaseCall("update", egRet'.arguments.value.state,
             egRet'.arguments.value.action, egRet'.arguments.value.reward)

\* a <= b
RAtMost(a, b) == ~IsNaN(a) /\ ~IsNaN(b) /\ ~RLess(b, a)

\* C20: every update call sets epsilon to max(epsilonMin, epsilon *
\* epsilonDecay), whatever the preceding selectAction did, and forwards
\* exactly one update with the same arguments to the base policy; across
\* update calls epsilon never increases (for epsilonDecay <= 1) and is never
\* below epsilonMin.
C20_UpdateDecaysMonotonically ==
    [][EpsilonUpdateStep =>
        /\ epsilon' = RMax(epsilonMin, RMul(epsilon, epsilonDecay))
        /\ basePolicy # Null => baseCalls' = Append(baseCalls, ForwardedUpdate)
        /\ RAtMost(epsilonDecay, <<1, 1>>) => RAtMost(epsilon', epsilon)
        /\ RAtMost(epsilonMin, epsilon')]_vars

\* C20, amended: every update call sets epsilon to max(epsilonMin, epsilon *
\* epsilonDecay), whatever the preceding selectAction did, so epsilon is at
\* least epsilonMin afterwards; for 0 <= epsilonDecay <= 1 it does not
\* increase when it was at least epsilonMin before the call, and it rises to
\* epsilonMin when it was below.  The call forwards exactly one update with
\* the same arguments to the base policy when there is one, and none
\* otherwise.
C20_UpdateDecaysToFloor ==
    [][EpsilonUpdateStep =>
        /\ epsilon' = RMax(epsilonMin, RMul(epsilon, epsilonDecay))
        /\ RAtMost(epsilonMin, epsilon')
        /\ (RAtMost(epsilonDecay, <<1, 1>>) /\ RAtMost(epsilonMin, epsilon))
              => RAtMost(epsilon', epsilon)
        /\ (RAtMost(epsilonDecay, <<1, 1>>) /\ RLess(epsilon, epsilonMin))
              => epsilon' = epsilonMin
        /\ baseCalls' = IF basePolicy # Null
                        THEN Append(baseCalls, ForwardedUpdate)
                        ELSE baseCalls
        /\ basePolicy' = basePolicy]_vars

\* The second call on the policy, an update, raised an epsilon that was
\* below epsilonMin to epsilonMin and forwarded the update to the base
\* policy.
C20_Witness ==
    /\ egRet.op = "update"
    /\ egRet.calls = 2
    /\ basePolicy # Null
    /\ RLess(egRet.before.value, epsilonMin)
    /\ epsilon = epsilonMin
    /\ Len(baseCalls) = 1
    /\ baseCalls[1] = BaseCall("update", egRet.arguments.value.state,
                               egRet.arguments.value.action,
                               egRet.arguments.value.reward)

\* C21: after any sequence of update and setEpsilon calls, resetEpsilon (and
\* reset) sets epsilon back to the initial value the policy was configured
\* with at construction, also when that value came through the epsilon
\* field rather than explorationRate; reset also resets the base policy.
C21_ResetRestoresInitialEpsilon ==
    egRet.op \in {"resetEpsilon", "reset"} =>
        /\ epsilon = Nullish(epsilonConfig.epsilon,
                             Nullish(epsilonConfig.explorationRate,
                                     DefaultEpsilon))
        /\ (egRet.op = "reset" /\ basePolicy # Null) =>
              /\ baseCalls # <<>>
              /\ baseCalls[Len(baseCalls)].op = "reset"

\* The value the constructor gave epsilon.
ConstructedEpsilon ==
    Nullish(epsilonConfig.epsilon, ConfiguredExplorationRate)

\* epsilonMin <= epsilon <= 1
EpsilonInRange(value) ==
    RAtMost(epsilonMin, value) /\ RAtMost(value, <<1, 1>>)

\* C35: for an EpsilonGreedy constructed with epsilonMin <= epsilon <= 1,
\* epsilon stays within [epsilonMin, 1] after any sequence of selectAction,
\* update, setEpsilon, resetEpsilon and reset calls.
C35_EpsilonStaysInRange ==
    EpsilonInRange(ConstructedEpsilon) => EpsilonInRange(epsilon)

\* ------------------------------------------------------ claims: ActionSpace

\* C23: after any sequence of construction, addAction and removeAction
\* calls, getAllActions() holds at most one action per type, getAction(t) is
\* the action added last with type t (undefined if removed or never added),
\* size() is the number of distinct types present and at most the number of
\* actions ever added, and adding an action of a present type replaces it
\* without changing size().
C23_OneActionPerType ==
    LET all == GetAllActions
        types == {all[n].type : n \in 1..Len(all)}
    IN  /\ \A n \in 1..Len(all), m \in 1..Len(all) :
              all[n].type = all[m].type => n = m
        /\ \A t \in DOMAIN spaceLatest : GetAction(t) = spaceLatest[t]
        /\ Size = Cardinality(types)
        /\ Size <= spaceAdded
        /\ (spaceRet.op = "addAction" /\ spaceRet.present) =>
              /\ Size = spaceRet.sizeBefore
              /\ GetAction(spaceRet.action.value.type) = spaceRet.action

\* An action of a present type was added: it replaced the other action of
\* its type and the size stayed at two.
C23_Witness ==
    /\ spaceRet.op = "addAction"
    /\ spaceRet.present
    /\ spaceRet.calls = 3
    /\ Size = 2
    /\ spaceAdded > Size
    /\ GetAction(<<"end_call">>) = Some([type |-> <<"end_call">>, name |-> "second"])
    /\ spaceRet.action = Some([type |-> <<"end_call">>, name |-> "second"])

\* ---------------------------------------------------------- claims: callers

\* C25: a storage failure during update is surfaced as a failure of the
\* call to the one who made it (no storage operation is tried again, none
\* is swallowed), also when the bandit is reached through
\* EpsilonGreedy.update or Environment.processOutcome.
C25_FailureSurfaces ==
    /\ \A i \in CallIds :
          (calls[i].pc = "failed" /\ via[i] \in {"direct", "epsilon"})
              => settled[i] = "rejected"
    /\ run.pc = "resolved" => \A i \in run.issued : calls[i].pc # "failed"

\* C30: with EpsilonGreedy around a storage-backed bandit, a caller that
\* awaits EpsilonGreedy.update sees it complete only after the base update
\* has finished writing to storage; so after processOutcome resolves for an
\* n-step episode of one context and one action, on an arm without prior
\* statistics, the arm's stored pulls are n.
C30_WrappedUpdateAwaited ==
    /\ \A i \in CallIds :
          (via[i] = "epsilon" /\ settled[i] = "resolved") => calls[i].pc = "done"
    /\ ( /\ run.pc = "resolved"
         /\ run.policy = "epsilon"
         /\ \A i \in CallIds : calls[i].pc # "failed" )
        => StoredPulls(getStorageKey(EpisodeContext, EpisodeAction)) = run.n

\* The arm every update of the callers goes to.
EpisodeArm == getStorageKey(EpisodeContext, EpisodeAction)

Resolved == {i \in CallIds : calls[i].pc = "done"}

Failed == {i \in CallIds : calls[i].pc = "failed"}

\* The update calls so far ran one at a time and none is in flight, so that
\* what is stored before a call is what the calls before it left.
SettledOneAtATime ==
    /\ serial[EpisodeArm]
    /\ \A i \in CallIds : calls[i].pc \in {"idle", "done", "failed"}

\* C36: an update call during which a storage operation fails leaves the
\* arm's stored statistics and the per-context counter exactly as they were
\* before the call: after updates run one at a time on an empty storage,
\* pulls and counter both count the resolved calls alone.
C36_NoPartialEffect ==
    SettledOneAtATime =>
        /\ ContextTotal(EpisodeContext) = Cardinality(Resolved)
        /\ StoredPulls(EpisodeArm) = Cardinality(Resolved)

\* C36, amended: a failed update leaves the per-context counter as it was
\* before the call, and the arm's statistics either as they were or with
\* this call's one pull added (the failure came after the arm was written):
\* after updates run one at a time, the counter counts the resolved calls
\* alone, and the pulls lie between that and the resolved and failed calls
\* together; with no failed call the two are equal.
C36_FailureKeepsCounter ==
    SettledOneAtATime =>
        /\ ContextTotal(EpisodeContext) = Cardinality(Resolved)
        /\ StoredPulls(EpisodeArm) >= Cardinality(Resolved)
        /\ StoredPulls(EpisodeArm) <= Cardinality(Resolved) + Cardinality(Failed)

\* One update resolved, then one failed after its arm write: two pulls
\* stored, the counter at one.
C36_Witness ==
    /\ SettledOneAtATime
    /\ Cardinality(Resolved) = 1
    /\ Cardinality(Failed) = 1
    /\ StoredPulls(EpisodeArm) = 2
    /\ ContextTotal(EpisodeContext) = 1

\* ---------------------------------------------------- claims: MemoryStorage

\* What a map holds for the key: the value most recently set since the last
\* delete of the key or clear, or null when there is none.
MostRecentlySet(key) ==
    IF memStore[key] = Undefined THEN Null ELSE memStore[key]

\* get(key) returned the value most recently set, or null without one.
GetReturnsMostRecent ==
    memRet.op = "get" => memRet.result = MostRecentlySet(memRet.key)

\* A set or delete on one key leaves what get returns for the other keys.
OtherKeysKept ==
    \A k \in MemoryKeys :
        ( /\ memRet'.calls = memRet.calls + 1
          /\ memRet'.op \in {"set", "delete"}
          /\ k # memRet'.key )
            => MemoryGet(memStore', k) = MemoryGet(memStore, k)

\* C37: MemoryStorage behaves as a map: get(key) returns the value most
\* recently set for key since the last delete(key) or clear, for every
\* value including 0, false and the empty string, and null exactly when
\* there is no such value; set and delete on one key leave what get returns
\* for another key unchanged.
C37_BehavesAsMap == []GetReturnsMostRecent /\ [][OtherKeysKept]_vars

\* ---------------------------------------------------------- claims: Monitor

\* C38: Monitor.log does not modify the State it is given: after the call
\* state.data, the length and content of its history included, is what it
\* was before, for histories of every length; and the number of retained
\* log entries never exceeds maxLogEntries.
C38_LogLeavesState ==
    /\ monRet.op = "log" => monRet.given.value.data = monRet.before.value
    /\ Len(monLogs) <= monConfig.maxLogEntries

\* ----------------------------------------------------- claims: storage keys

\* C39: the storage keys are collision-free: two different (context,
\* actionType) pairs never get the same arm key, and no arm key equals a
\* per-context counter key, for every context getContextKey can produce and
\* every action type string, those containing ':' included.
C39_KeysCollisionFree ==
    fnCall.op = "storageKeys" =>
        /\ (fnResult.a.context # fnResult.b.context
               \/ fnResult.a.actionType # fnResult.b.actionType)
            => fnResult.a.arm # fnResult.b.arm
        /\ fnResult.a.arm \notin {fnResult.a.counter, fnResult.b.counter}

\* ---------------------------------------------------- claims: custom rewards

\* C26: calculateCustom(name, ...) fails with an error whenever no function
\* is registered under name, and the failure touches that call only: the
\* registered functions are unchanged, and a calculateCustom with a
\* registered name (the same name after registerCustomReward included)
\* returns that function's result clamped to [-1, 1].
C26_CustomRewardLookup ==
    customRet.op = "calculateCustom" =>
        /\ customRewards = customRet.before
        /\ customRet.before[customRet.name] = Null => customRet.result = NotFound
        /\ customRet.before[customRet.name] # Null =>
              /\ customRet.result # NotFound
              /\ InUnitInterval(customRet.result.value)
              /\ customRet.result.value =
                    RNormalize(customRet.before[customRet.name].value.returns.number)

\* ------------------------------------------------------------ specification

\* A Guardrails nobody calls, for the behaviours of the other components.
GuardIdle ==
    /\ rules = <<>>
    /\ whitelist = <<>>
    /\ blacklist = <<>>
    /\ defaultFallback = Null
    /\ fallbackPolicy = Null
    /\ logViolations = TRUE
    /\ violations = <<>>
    /\ counts = [name \in StatefulRules |-> [k \in CountKeys |-> 0]]
    /\ ret = NoCall

\* A bandit whose selectAction nobody calls.
SelectIdle ==
    /\ SelectInit
    /\ useUCB
    /\ ~exploring
    /\ actionSpace = <<AskQuestion, EndCall>>

\* A bandit nobody calls.
BanditIdle == BanditInit /\ initialReward = 0 /\ SelectIdle

\* An Environment nobody calls.
EnvIdle ==
    /\ EnvInit
    /\ configInitialState = Null
    /\ maxTurns = DefaultMaxTurns
    /\ policy = Null
    /\ rewardConfig = DefaultRewardConfig

\* An EpsilonGreedy nobody calls, built from an empty configuration.
EpsilonIdle ==
    /\ EpsilonInit
    /\ epsilonConfig.epsilon = Null
    /\ epsilonConfig.explorationRate = Null
    /\ epsilonConfig.epsilonMin = Null
    /\ epsilonConfig.epsilonDecay = Null
    /\ epsilonConfig.basePolicy = Null

\* The storage-backed ContextualBandit under concurrent update calls.
Init == BanditInit /\ SelectIdle /\ GuardIdle /\ EnvIdle /\ FnInit /\ EpsilonIdle /\ SpaceIdle /\ MapInit /\ CallerInit /\ CustomIdle /\ EpisodeIdle /\ MonitorIdle /\ MemoryInit

Next ==
    BanditNext /\ UNCHANGED <<selectVars, guardVars, envVars, fnVars, epsilonVars,
                   spaceVars, mapVars,
                   callerVars,
                   customVars,
                   episodeVars,
                   memoryVars,
                   monitorVars>>

Spec == Init /\ [][Next]_vars

\* A Guardrails under isSafe, validate and allowAction calls.
GuardSpecInit == GuardInit /\ BanditIdle /\ EnvIdle /\ FnInit /\ EpsilonIdle /\ SpaceIdle /\ MapInit /\ CallerInit /\ CustomIdle /\ EpisodeIdle /\ MonitorIdle /\ MemoryInit

GuardSpecNext ==
    GuardNext /\ UNCHANGED <<banditVars, selectVars, envVars, fnVars, epsilonVars,
                   spaceVars, mapVars,
                   callerVars,
                   customVars,
                   episodeVars,
                   memoryVars,
                   monitorVars>>

GuardSpec == GuardSpecInit /\ [][GuardSpecNext]_vars

\* An Environment under reset, step and setState calls.
EnvSpecInit ==
    /\ EnvInit
    /\ policy = Null
    /\ rewardConfig = DefaultRewardConfig
    /\ BanditIdle
    /\ GuardIdle
    /\ FnInit
    /\ EpsilonIdle /\ SpaceIdle /\ MapInit /\ CallerInit /\ CustomIdle /\ EpisodeIdle /\ MonitorIdle /\ MemoryInit

EnvSpecNext ==
    EnvNext /\ UNCHANGED <<banditVars, selectVars, guardVars, fnVars, epsilonVars,
                   spaceVars, mapVars,
                   callerVars,
                   customVars,
                   episodeVars,
                   memoryVars,
                   monitorVars>>

EnvSpec == EnvSpecInit /\ [][EnvSpecNext]_vars

\* An Environment under reset, step and processOutcome calls.
OutcomeSpecInit ==
    /\ EnvInit
    /\ maxTurns = DefaultMaxTurns
    /\ BanditIdle
    /\ GuardIdle
    /\ FnInit
    /\ EpsilonIdle /\ SpaceIdle /\ MapInit /\ CallerInit /\ CustomIdle /\ EpisodeIdle /\ MonitorIdle /\ MemoryInit

OutcomeSpecNext ==
    OutcomeNext
    /\ UNCHANGED <<banditVars, selectVars, guardVars, fnVars, epsilonVars,
                   spaceVars, mapVars,
                   callerVars,
                   customVars,
                   episodeVars,
                   memoryVars,
                   monitorVars>>

OutcomeSpec == OutcomeSpecInit /\ [][OutcomeSpecNext]_vars

\* The same Environment, with a policy and up to one processOutcome call
\* more.
RepeatSpecInit ==
    /\ OutcomeSpecInit
    /\ policy # Null
    /\ rewardConfig = DefaultRewardConfig

RepeatSpecNext ==
    RepeatNext
    /\ UNCHANGED <<banditVars, selectVars, guardVars, fnVars, epsilonVars,
                   spaceVars, mapVars, callerVars, customVars,
                   episodeVars,
                   memoryVars,
                   monitorVars>>

RepeatSpec == RepeatSpecInit /\ [][RepeatSpecNext]_vars

\* An Environment driven by runEpisode alone; every turn the policy and
\* the simulator have answered is taken.
EpisodeSpecInit ==
    /\ EnvInit
    /\ maxTurns = ShortEpisode
    /\ rewardConfig = DefaultRewardConfig
    /\ BanditIdle
    /\ GuardIdle
    /\ FnInit
    /\ EpsilonIdle /\ SpaceIdle /\ MapInit /\ CallerInit /\ CustomIdle
    /\ EpisodeIdle /\ MonitorIdle /\ MemoryInit

EpisodeSpecNext ==
    EpisodeNext
    /\ UNCHANGED <<banditVars, selectVars, guardVars, fnVars, epsilonVars,
                   spaceVars, mapVars, callerVars, customVars,
                   memoryVars,
                   monitorVars>>

EpisodeFairness ==
    WF_vars((\E a \in EnvActions, r \in SimulatorResults : EpisodeTurn(a, r))
            /\ UNCHANGED <<banditVars, selectVars, guardVars, fnVars,
                           epsilonVars, spaceVars, mapVars, callerVars,
                           customVars,
                   memoryVars,
                   monitorVars>>)

EpisodeSpec == EpisodeSpecInit /\ [][EpisodeSpecNext]_vars /\ EpisodeFairness

\* The storage-backed ContextualBandit under selectAction and awaited
\* update calls.
SelectSpecInit ==
    /\ BanditInit
    /\ SelectInit
    /\ <<initialReward, useUCB, exploring, actionSpace>> \in SelectConfigs
    /\ GuardIdle
    /\ EnvIdle
    /\ FnInit
    /\ EpsilonIdle /\ SpaceIdle /\ MapInit /\ CallerInit /\ CustomIdle /\ EpisodeIdle /\ MonitorIdle /\ MemoryInit

SelectSpecNext ==
    SelectNext /\ UNCHANGED <<guardVars, envVars, fnVars, epsilonVars,
                   spaceVars, mapVars,
                   callerVars,
                   customVars,
                   episodeVars,
                   memoryVars,
                   monitorVars>>

SelectSpec == SelectSpecInit /\ [][SelectSpecNext]_vars

\* The same bandit, with analyzeAction among the calls.
AnalyzeSpecNext ==
    /\ AnalyzeNext
    /\ UNCHANGED <<guardVars, envVars, epsilonVars, spaceVars, mapVars,
                   callerVars, customVars,
                   episodeVars,
                   memoryVars,
                   monitorVars>>

AnalyzeSpec == SelectSpecInit /\ [][AnalyzeSpecNext]_vars

\* State.getContextKey on pairs of states.
ContextKeySpecInit ==
    FnInit /\ BanditIdle /\ GuardIdle /\ EnvIdle /\ EpsilonIdle /\ SpaceIdle /\ MapInit /\ CallerInit /\ CustomIdle /\ EpisodeIdle /\ MonitorIdle /\ MemoryInit

ContextKeySpecNext ==
    ContextKeyNext
    /\ UNCHANGED <<banditVars, selectVars, guardVars, envVars, epsilonVars,
                   spaceVars, mapVars,
                   callerVars,
                   customVars,
                   episodeVars,
                   memoryVars,
                   monitorVars>>

ContextKeySpec == ContextKeySpecInit /\ [][ContextKeySpecNext]_vars

\* The storage keys of pairs of states and action types.
StorageKeySpecNext ==
    StorageKeyNext
    /\ UNCHANGED <<banditVars, selectVars, guardVars, envVars, epsilonVars,
                   spaceVars, mapVars, callerVars, customVars, episodeVars,
                   memoryVars, monitorVars>>

StorageKeySpec == ContextKeySpecInit /\ [][StorageKeySpecNext]_vars

\* The Reward calculations applied to inputs of every kind.
RewardSpecInit == FnInit /\ BanditIdle /\ GuardIdle /\ EnvIdle /\ EpsilonIdle /\ SpaceIdle /\ MapInit /\ CallerInit /\ CustomIdle /\ EpisodeIdle /\ MonitorIdle /\ MemoryInit

RewardSpecNext ==
    RewardNext
    /\ UNCHANGED <<banditVars, selectVars, guardVars, envVars, epsilonVars,
                   spaceVars, mapVars,
                   callerVars,
                   customVars,
                   episodeVars,
                   memoryVars,
                   monitorVars>>

RewardSpec == RewardSpecInit /\ [][RewardSpecNext]_vars

\* An EpsilonGreedy under selectAction, update, setEpsilon, setBasePolicy
\* and reset calls.
EpsilonSpecInit ==
    EpsilonInit /\ BanditIdle /\ GuardIdle /\ EnvIdle /\ FnInit /\ SpaceIdle /\ MapInit /\ CallerInit /\ CustomIdle /\ EpisodeIdle /\ MonitorIdle /\ MemoryInit

EpsilonSpecNext ==
    EpsilonNext
    /\ UNCHANGED <<banditVars, selectVars, guardVars, envVars, fnVars,
                   spaceVars, mapVars,
                   callerVars,
                   customVars,
                   episodeVars,
                   memoryVars,
                   monitorVars>>

EpsilonSpec == EpsilonSpecInit /\ [][EpsilonSpecNext]_vars

\* An ActionSpace under addAction and removeAction calls.
SpaceSpecInit ==
    SpaceInit /\ BanditIdle /\ GuardIdle /\ EnvIdle /\ FnInit /\ EpsilonIdle
    /\ MapInit /\ CallerInit /\ CustomIdle /\ EpisodeIdle /\ MonitorIdle /\ MemoryInit

SpaceSpecNext ==
    SpaceNext
    /\ UNCHANGED <<banditVars, selectVars, guardVars, envVars, fnVars,
                   epsilonVars, mapVars,
                   callerVars,
                   customVars,
                   episodeVars,
                   memoryVars,
                   monitorVars>>

SpaceSpec == SpaceSpecInit /\ [][SpaceSpecNext]_vars

\* The Map-based ContextualBandit under selectAction, update and reset
\* calls.
MapSpecInit ==
    /\ MapInit
    /\ BanditInit
    /\ SelectInit
    /\ <<initialReward, useUCB, exploring, actionSpace>> \in SelectConfigs
    /\ GuardIdle
    /\ EnvIdle
    /\ FnInit
    /\ EpsilonIdle
    /\ SpaceIdle
    /\ CallerInit /\ CustomIdle /\ EpisodeIdle /\ MonitorIdle /\ MemoryInit

MapSpecNext ==
    MapNext
    /\ UNCHANGED <<banditVars, selectVars, guardVars, envVars, fnVars,
                   epsilonVars, spaceVars, callerVars,
                   customVars,
                   episodeVars,
                   memoryVars,
                   monitorVars>>

MapSpec == MapSpecInit /\ [][MapSpecNext]_vars

\* The storage-backed bandit, with a storage that may fail, under update
\* calls made directly, through an EpsilonGreedy around it, and through
\* Environment.processOutcome.
CallerSpecInit ==
    /\ CallerInit /\ CustomIdle /\ EpisodeIdle /\ MonitorIdle /\ MemoryInit
    /\ BanditInit
    /\ initialReward = 0
    /\ SelectIdle
    /\ EpsilonInit
    /\ epsilonConfig.epsilon = Null
    /\ epsilonConfig.explorationRate = Null
    /\ epsilonConfig.epsilonMin = Null
    /\ epsilonConfig.epsilonDecay = Null
    /\ epsilonConfig.basePolicy = BasePolicy
    /\ GuardIdle
    /\ EnvIdle
    /\ FnInit
    /\ SpaceIdle
    /\ MapInit

CallerSpecNext ==
    CallerNext
    /\ UNCHANGED <<selectVars, guardVars, envVars, fnVars, spaceVars, mapVars,
                   customVars,
                   episodeVars,
                   memoryVars,
                   monitorVars>>

CallerSpec == CallerSpecInit /\ [][CallerSpecNext]_vars

\* A Monitor under log and clearLogs calls.
MonitorSpecInit ==
    /\ MonitorInit
    /\ MemoryInit /\ EpisodeIdle
    /\ FnInit /\ BanditIdle /\ GuardIdle /\ EnvIdle /\ EpsilonIdle /\ SpaceIdle
    /\ MapInit /\ CallerInit /\ CustomIdle

MonitorSpecNext ==
    MonitorNext
    /\ UNCHANGED <<banditVars, selectVars, guardVars, envVars, fnVars,
                   epsilonVars, spaceVars, mapVars, callerVars, customVars,
                   episodeVars, memoryVars>>

MonitorSpec == MonitorSpecInit /\ [][MonitorSpecNext]_vars

\* A MemoryStorage under get, set, delete and clear calls.
StorageSpecInit ==
    /\ MemoryInit
    /\ EpisodeIdle /\ MonitorIdle
    /\ FnInit /\ BanditIdle /\ GuardIdle /\ EnvIdle /\ EpsilonIdle /\ SpaceIdle
    /\ MapInit /\ CallerInit /\ CustomIdle

StorageSpecNext ==
    MemoryNext
    /\ UNCHANGED <<banditVars, selectVars, guardVars, envVars, fnVars,
                   epsilonVars, spaceVars, mapVars, callerVars, customVars,
                   episodeVars,
                   monitorVars>>

StorageSpec == StorageSpecInit /\ [][StorageSpecNext]_vars

\* A caller that awaits every update before it makes the next, over a
\* storage that may reject any operation.
FailureNext ==
    \/ \E i \in CallIds, r \in EpisodeRewards :
          /\ InFlight(EpisodeArm) = {}
          /\ DirectUpdate(i, EpisodeContext, EpisodeAction, r)
    \/ \E i \in CallIds : UpdateGoesOn(i)
    \/ \E i \in CallIds : UpdateResolves(i)
    \/ \E i \in CallIds : StorageRejects(i)

FailureSpecNext ==
    FailureNext
    /\ UNCHANGED <<selectVars, guardVars, envVars, fnVars, spaceVars, mapVars,
                   customVars, episodeVars,
                   memoryVars,
                   monitorVars>>

FailureSpec == CallerSpecInit /\ [][FailureSpecNext]_vars

\* A Reward under registerCustomReward and calculateCustom calls.
CustomSpecInit ==
    /\ CustomInit
    /\ EpisodeIdle /\ MonitorIdle /\ MemoryInit
    /\ FnInit /\ BanditIdle /\ GuardIdle /\ EnvIdle /\ EpsilonIdle /\ SpaceIdle
    /\ MapInit /\ CallerInit

CustomSpecNext ==
    CustomNext
    /\ UNCHANGED <<banditVars, selectVars, guardVars, envVars, fnVars,
                   epsilonVars, spaceVars, mapVars, callerVars,
                   episodeVars,
                   memoryVars,
                   monitorVars>>

CustomSpec == CustomSpecInit /\ [][CustomSpecNext]_vars

====
